---------------------------- MODULE Spec2Model ----------------------------
(***************************************************************************)
(* A model of the AICallMetrics demo uploader (anshul-031/demo):           *)
(*   - the validator             src/src/utils/validation.ts               *)
(*   - the session client        src/src/api/client.ts                     *)
(*   - the upload form and its orchestrator (UploadForm.tsx)               *)
(*                               src/unnamed/part_004                      *)
(*   - the login handler         src/src/ui/App.tsx                        *)
(*   - the dev proxy middleware  src/vite.config.ts                        *)
(* Each unit is a component of the repository that is driven on its own:   *)
(* the variable `unit` records which one a behaviour drives.               *)
(***************************************************************************)
EXTENDS Integers, Sequences, FiniteSets, TLC

VARIABLES
    unit,        \* which component this behaviour drives
    \* ---- validator (validation.ts) ----
    vIn,         \* the arguments (name, size, type) of validateAudioFile
    vOut,        \* its ValidationResult, or NotCalled
    vErr,        \* what the upload form's validateFile says of a File of that size and type
    \* ---- session client (client.ts) ----
    cToken,      \* ApiClient.token
    cForce,      \* opts.forceJsonContentType of the last postJson
    cCall,       \* the last fetch postJson issued, or NoCall
    cRes,        \* the response that fetch got, or NoCall
    cOutcome,    \* what the last postJson did: returned data / raised error
    cSets,       \* number of setToken calls so far (capped)
    cTokenAtCall, \* history: this.token when the last postJson ran
    cLog,         \* the "headers:" console.log line of the last postJson (part_003), or NoLog
    \* ---- App.tsx ----
    domain,          \* useState domain
    token,           \* useState token
    isAuthenticated, \* useState isAuthenticated
    loading,         \* useState loading
    statusMessage,   \* useState statusMessage
    loginCall,       \* the fetch of the login in flight / last issued, or NoCall
    loginRes,        \* history: what that fetch got (type, status, parsed success)
    \* ---- UploadForm (part_004) ----
    file,        \* useState file: a File record or NoFile
    uploading,   \* useState uploading
    progress,    \* useState progress
    error,       \* useState error
    pc,          \* where the running handleUpload is suspended (its await)
    calls,       \* the network calls of the current upload run, in issue order
    outstanding, \* how many of them have been issued and not yet answered
    runFile,     \* the File handleUpload passed to startSimpleMultipart
    uploadId,    \* startData.uploadId
    key,         \* startData.key
    parts,       \* const parts = Math.ceil(f.size / CHUNK_SIZE)
    urls,        \* urlsData.urls: its length, or -1 when the field is absent
    partIdx,     \* the loop variable i
    uploadedParts, \* uploadedParts: sequence of [ETag, PartNumber]
    completeData,  \* completeData, or NoData
    completeRes,   \* history: the body of the complete-upload response as received
    failedAt,    \* the phase whose failure aborted the run, or "none"
    completions, \* the messages onComplete received in the current run
    logs,        \* useState logs: the lines pushLog emitted in the current run
    \* ---- dev proxy (vite.config.ts), one inbound request ----
    pReq,        \* the inbound request: url parameter, X-Target-Base, method, headers
    pPc,         \* where the middleware is suspended (its await), or "done"
    pFwd,        \* fwdHeaders
    pBody,       \* body: the buffered request body, or Undefined
    pCur,        \* currentUrl, currentMethod, currentHeaders, currentBody
    pHop,        \* the loop variable i
    pFetch,      \* the upstream request in flight / last issued, or NoCall
    pVia,        \* history: the status of the redirect pFetch follows, or 0
    pLocation,   \* history: the Location header of that redirect, or Null
    pDowngraded, \* history: a 301/302/303 has been followed
    pCount,      \* history: number of upstream requests issued
    pRedirects,  \* history: number of redirect responses received
    pThrown,     \* history: what threw inside the try block, or "none"
    pResponse,   \* response, once the loop has ended: the upstream response relayed
    pRes,        \* the response sent to the caller, or NoCall
    pLog         \* the "outbound headers" console.log line, or NoLog

vars == <<unit, vIn, vOut, vErr, cToken, cForce, cCall, cRes, cOutcome, cSets, cLog,
          cTokenAtCall, completeRes, domain, token, isAuthenticated, loading, statusMessage,
          loginCall, loginRes,
          file, uploading, progress, error, pc, calls, outstanding, runFile,
          uploadId, key, parts, urls, partIdx, uploadedParts, completeData,
          failedAt, completions, logs, pReq, pPc, pFwd, pBody, pCur, pHop, pFetch,
          pVia, pLocation, pDowngraded, pCount, pRedirects, pThrown, pResponse, pRes, pLog>>

validatorVars == <<vIn, vOut, vErr>>
clientVars    == <<cToken, cForce, cCall, cRes, cOutcome, cSets, cTokenAtCall, cLog>>
appVars       == <<domain, token, isAuthenticated, loading, statusMessage, loginCall, loginRes>>
uploadVars    == <<file, uploading, progress, error, pc, calls, outstanding,
                   runFile, uploadId, key, parts, urls, partIdx, uploadedParts,
                   completeData, completeRes, failedAt, completions, logs>>
proxyVars     == <<pReq, pPc, pFwd, pBody, pCur, pHop, pFetch, pVia, pLocation,
                   pDowngraded, pCount, pRedirects, pThrown, pResponse, pRes, pLog>>

-----------------------------------------------------------------------------
(* JavaScript values, tagged by their type.                                *)

Undefined == [kind |-> "undefined"]
Null      == [kind |-> "null"]
Str(s)    == [kind |-> "string", value |-> s]
Bool(b)   == [kind |-> "boolean", value |-> b]
Num(n)    == [kind |-> "number", value |-> n]

\* obj?.field on a parsed JSON value: Undefined unless obj is an object.
Get(obj, fld) == IF obj.kind = "object" THEN obj[fld] ELSE Undefined

\* The text of a response body, as JSON.parse / res.json() sees it: either it
\* does not parse (the parser throws), or it parses to a JSON value.
Unparsable == [kind |-> "unparsable"]

\* ToBoolean: what `if (v)`, `!v`, `a || b` test.
Truthy(v) ==
    CASE v.kind = "string"  -> v.value # ""
      [] v.kind = "boolean" -> v.value
      [] v.kind = "number"  -> v.value # 0
      [] v.kind = "object"  -> TRUE
      [] OTHER              -> FALSE

\* a || b
JsOr(a, b) == IF Truthy(a) THEN a ELSE b

\* A headers object: a function from header names to values.
NoHeaders == [h \in {} |-> ""]

\* { ...a, ...b }: b's entries override a's.
Spread(a, b) == b @@ a

HasHeader(h, name) == name \in DOMAIN h

-----------------------------------------------------------------------------
(* Bounds of the model.                                                    *)

\* Files of up to MaxChunks whole chunks (plus a remainder) are enumerated.
MaxChunks == 2
\* setToken calls counted in cSets.
MaxSetToken == 1

-----------------------------------------------------------------------------
(* validation.ts                                                           *)

MAX_SIZE_BYTES == 5 * 1024 * 1024

ACCEPTED_TYPES ==
    {"audio/mpeg", "audio/wav", "audio/x-wav", "audio/wave", "audio/x-pn-wav",
     "audio/mp4", "audio/x-m4a", "audio/aac", "audio/ogg", "audio/flac",
     "audio/webm"}

\* The MIME types the model feeds in: the allow-list and some outside it
\* (the empty type a browser reports for an unknown file, a non-audio type,
\* an audio type that is not listed, a listed type in another case).
OtherTypes == {"", "text/plain", "audio/mp3", "AUDIO/MPEG", "video/webm"}
MimeTypes  == ACCEPTED_TYPES \cup OtherTypes

FileNames == {"test.mp3", "test.txt"}

\* Sizes k * 5MiB + r around every chunk boundary.
Remainders == {0, 1, MAX_SIZE_BYTES - 1}
FileSizes  == {k * MAX_SIZE_BYTES + r : k \in 0..MaxChunks, r \in Remainders}

NotCalled == [called |-> FALSE]

\* A ValidationResult {valid, error?}: error is Undefined when not set.
ValidateAudioFile_NoTypeCheck(name, size, type) ==
    IF size > MAX_SIZE_BYTES
      THEN [called |-> TRUE, valid |-> FALSE, error |-> Str("File exceeds 5MB limit")]
      ELSE [called |-> TRUE, valid |-> TRUE, error |-> Undefined]

ValidateAudioFile_TypeFirst(name, size, type) ==
    IF type \notin ACCEPTED_TYPES
      THEN [called |-> TRUE, valid |-> FALSE, error |-> Str("Unsupported file type")]
    ELSE IF size > MAX_SIZE_BYTES
      THEN [called |-> TRUE, valid |-> FALSE, error |-> Str("File exceeds 5MB limit")]
      ELSE [called |-> TRUE, valid |-> TRUE, error |-> Undefined]

ValidateAudioFile_Strict(name, size, type) ==
    IF size >= MAX_SIZE_BYTES
      THEN [called |-> TRUE, valid |-> FALSE, error |-> Str("File exceeds 5MB limit")]
    ELSE IF type \notin ACCEPTED_TYPES
      THEN [called |-> TRUE, valid |-> FALSE, error |-> Str("Unsupported file type")]
      ELSE [called |-> TRUE, valid |-> TRUE, error |-> Undefined]

validateAudioFile(name, size, type) ==
    IF size > MAX_SIZE_BYTES
      THEN [called |-> TRUE, valid |-> FALSE, error |-> Str("File exceeds 5MB limit")]
    ELSE IF type \notin ACCEPTED_TYPES
      THEN [called |-> TRUE, valid |-> FALSE, error |-> Str("Unsupported file type")]
      ELSE [called |-> TRUE, valid |-> TRUE, error |-> Undefined]

ValidatorInputs == [name : FileNames, size : FileSizes, type : MimeTypes]

\* A caller applies validateAudioFile to the arguments it holds.
Validate ==
    /\ unit = "validator"
    /\ vOut = NotCalled
    /\ vOut' = validateAudioFile(vIn.name, vIn.size, vIn.type)
    /\ UNCHANGED <<unit, vIn, vErr, clientVars, appVars, uploadVars, proxyVars>>

-----------------------------------------------------------------------------
(* client.ts: ApiClient                                                    *)

NoCall == [issued |-> FALSE]

\* nothing has been logged yet
NoLog == [emitted |-> FALSE]

\* String.prototype.toLowerCase on the scheme prefixes, host names and header
\* names in use
ToLowerCase(s) ==
    CASE s = "HTTPS://"  -> "https://"
      [] s = "A.Example" -> "a.example"
      [] s = "Authorization" -> "authorization"
      [] s = "Content-Type"  -> "content-type"
      [] OTHER           -> s

\* options.token / setToken's argument: string | null | undefined.
ClientTokens == {Undefined, Null, Str(""), Str("abc123"), Str("t0k")}

\* Response.ok
ResOk(status) == status >= 200 /\ status <= 299

\* The responses the mocked transport answers with.  Status 0 is the opaque
\* redirect of part_003's redirect: 'manual'.
Statuses == {0, 200, 404, 500}
ClientBodies ==
    {Unparsable, Null} \cup
    [kind : {"object"},
     success : {Undefined, Bool(TRUE), Bool(FALSE)},
     error   : {Undefined, Str(""), Str("Boom")},
     message : {Undefined, Str("Msg")}]
ClientResponses ==
    {[threw |-> TRUE]} \cup [threw : {FALSE}, status : Statuses, body : ClientBodies]

\* private buildHeaders(extra)
BuildHeaders_AlwaysAuth(tok, extra) ==
    Spread("Authorization" :> ("Bearer " \o (IF tok.kind = "string" THEN tok.value ELSE tok.kind)),
           extra)

BuildHeaders_AlwaysJson(tok, extra) ==
    Spread(Spread(IF Truthy(tok) THEN "Authorization" :> ("Bearer " \o tok.value)
                                 ELSE NoHeaders,
                  "Content-Type" :> "application/json"),
           extra)

buildHeaders(tok, extra) ==
    LET headers == IF Truthy(tok) THEN "Authorization" :> ("Bearer " \o tok.value)
                                  ELSE NoHeaders
    IN  Spread(headers, extra)

\* let data = null; try { data = await res.json() } catch { }
ResJson(res) == IF res.body = Unparsable THEN Null ELSE res.body

\* if (!res.ok || (data && data.success === false))
PostJsonFailed_StatusOnly(res) == ~ResOk(res.status)

PostJsonFailed_ParseFatal(res) ==
    \/ ~ResOk(res.status)
    \/ res.body = Unparsable
    \/ (Truthy(ResJson(res)) /\ Get(ResJson(res), "success") = Bool(FALSE))

PostJsonFailed(res) ==
    LET data == ResJson(res)
    IN  \/ ~ResOk(res.status)
        \/ (Truthy(data) /\ Get(data, "success") = Bool(FALSE))

\* new Error(data?.error || data?.message || `Request failed (${res.status})`)
ErrorMessage_MessageFirst(res) ==
    LET data == ResJson(res)
    IN  JsOr(JsOr(Get(data, "message"), Get(data, "error")),
             Str("Request failed (" \o ToString(res.status) \o ")")).value

ErrorMessage(res) ==
    LET data == ResJson(res)
    IN  JsOr(JsOr(Get(data, "error"), Get(data, "message")),
             Str("Request failed (" \o ToString(res.status) \o ")")).value

\* What postJson does with the response it awaited.
PostJsonOutcome(res) ==
    IF res.threw
      THEN \* fetch rejected: the rejection propagates, no status, no details
           [kind |-> "raised", message |-> "Failed to fetch",
            status |-> Undefined, details |-> Undefined]
    ELSE IF PostJsonFailed(res)
      THEN [kind |-> "raised", message |-> ErrorMessage(res),
            status |-> Num(res.status), details |-> ResJson(res)]
      ELSE [kind |-> "returned", data |-> ResJson(res)]

\* safeHeaders, as console.log(`[Api ${reqId}] headers:`, safeHeaders) prints it
\* (the copy of this file in src/unnamed/part_003)
SafeHeaders(headers) ==
    [emitted |-> TRUE,
     headers |-> [k \in DOMAIN headers |->
                    IF ToLowerCase(k) \in {"authorization", "cookie"}
                      THEN "<redacted>" ELSE headers[k]]]

\* public setToken(token)
SetToken(t) ==
    /\ unit = "client"
    /\ cSets < MaxSetToken
    /\ cToken' = t
    /\ cSets' = cSets + 1
    /\ UNCHANGED <<unit, cForce, cCall, cRes, cOutcome, cTokenAtCall, cLog,
                   validatorVars, proxyVars, appVars, uploadVars>>

\* public async postJson(path, body, opts): the fetch it issues and what it
\* makes of the response res.
PostJson(force, res) ==
    /\ unit = "client"
    /\ cForce' = force
    /\ cCall' = [issued |-> TRUE, via |-> "proxy", target |-> "/api/test",
                 method |-> "POST", credentials |-> "include",
                 headers |-> buildHeaders(cToken,
                                IF force THEN "Content-Type" :> "application/json"
                                         ELSE NoHeaders)]
    /\ cRes' = res
    /\ cOutcome' = PostJsonOutcome(res)
    /\ cTokenAtCall' = cToken
    /\ cLog' = SafeHeaders(cCall'.headers)
    /\ UNCHANGED <<unit, cToken, cSets, validatorVars, proxyVars, appVars, uploadVars>>

-----------------------------------------------------------------------------
(* App.tsx: handleLogin                                                    *)

\* One fetch as the transport sees it.
Call(kind, via, target, method, headers, body) ==
    [issued |-> TRUE, kind |-> kind, via |-> via, target |-> target,
     method |-> method, headers |-> headers, body |-> body]

LoginBodies ==
    {Unparsable} \cup
    [kind : {"object"}, success : {Bool(TRUE), Bool(FALSE)},
     token : {Undefined, Str("tokA")}, message : {Undefined, Str("Invalid credentials")}]
LoginResponses ==
    {[threw |-> TRUE]} \cup
    [threw : {FALSE}, type : {"basic", "opaqueredirect"},
     status : {0, 200, 302, 401}, body : LoginBodies]

\* useState(() => localStorage.getItem('aicm-domain') || 'https://www.aicallmetrics.com')
\* with nothing stored
DefaultDomain == "https://www.aicallmetrics.com"
\* What the user types into the domain field.
Domains == {DefaultDomain, "https://staging.example/"}

\* <DomainConfig onChange={setDomain} disabled={loading} />
SetDomain_ClearsToken(v) ==
    /\ unit = "app"
    /\ ~loading
    /\ v # domain
    /\ domain' = v
    /\ token' = Null
    /\ UNCHANGED <<unit, isAuthenticated, loading, statusMessage, loginCall, loginRes,
                   validatorVars, proxyVars, clientVars, uploadVars>>

SetDomain(v) ==
    /\ unit = "app"
    /\ ~loading
    /\ v # domain
    /\ domain' = v
    /\ UNCHANGED <<unit, token, isAuthenticated, loading, statusMessage, loginCall, loginRes,
                   validatorVars, proxyVars, clientVars, uploadVars>>

\* What handleLogin reads of the response: res.type, res.status, whether the
\* text parsed as JSON, data.success.
Seen(res) ==
    IF res.threw THEN [threw |-> TRUE]
    ELSE [threw |-> FALSE, type |-> res.type, status |-> res.status,
          json |-> res.body # Unparsable,
          success |-> IF res.body = Unparsable THEN Undefined ELSE res.body.success]

\* The Error handleLogin's try block throws for the response res, as a
\* message, or Undefined when it throws nothing.
LoginError_StatusOnly(res) ==
    IF res.threw THEN Str("Failed to fetch")
    ELSE IF res.status >= 300 /\ res.status < 400
      THEN Str("Received redirect during login (possible middleware or HTTPS redirect). This breaks CORS preflight.")
    ELSE IF res.body = Unparsable
      THEN Str("Failed to read response from login endpoint")
    ELSE IF ~ResOk(res.status)
      THEN JsOr(res.body.message,
                Str("Login failed (status " \o ToString(res.status) \o ")"))
    ELSE Undefined

LoginError(res) ==
    IF res.threw THEN Str("Failed to fetch")
    ELSE IF res.type = "opaqueredirect" \/ (res.status >= 300 /\ res.status < 400)
      THEN Str("Received redirect during login (possible middleware or HTTPS redirect). This breaks CORS preflight.")
    ELSE IF res.body = Unparsable
      THEN Str("Failed to read response from login endpoint")
    ELSE IF ~ResOk(res.status) \/ ~Truthy(res.body.success)
      THEN JsOr(res.body.message,
                Str("Login failed (status " \o ToString(res.status) \o ")"))
    ELSE Undefined

\* msg.includes('redirect') || msg.includes('CORS') || msg.includes('Failed to fetch')
CorsHint(msg) ==
    IF msg \in {"Failed to fetch",
                "Received redirect during login (possible middleware or HTTPS redirect). This breaks CORS preflight."}
      THEN " Potential CORS / preflight issue: ensure server sends Access-Control-Allow-Origin & does not redirect OPTIONS/POST."
      ELSE ""

\* handleLogin up to its await fetch(...)
HandleLogin ==
    /\ unit = "app"
    /\ ~isAuthenticated /\ ~loading
    /\ loading' = TRUE
    /\ statusMessage' = "Logging in..."
    /\ loginCall' = Call("login", "proxy", "/api/auth/login", "POST", NoHeaders,
                         [email |-> "user@example.com"])
    /\ loginRes' = NoCall
    /\ UNCHANGED <<unit, domain, token, isAuthenticated, validatorVars, proxyVars, clientVars, uploadVars>>

\* handleLogin from the answer of its fetch to the end of its finally block
LoginResponse(res) ==
    /\ unit = "app"
    /\ loading /\ ~isAuthenticated
    /\ LET err == LoginError(res) IN
         IF err = Undefined
           THEN /\ token' = IF Truthy(res.body.token) THEN res.body.token ELSE token
                /\ isAuthenticated' = TRUE
                /\ statusMessage' = "Login successful. You can now upload a file."
           ELSE /\ statusMessage' = "Login error: " \o err.value \o CorsHint(err.value)
                /\ UNCHANGED <<token, isAuthenticated>>
    /\ loading' = FALSE
    /\ loginRes' = Seen(res)
    /\ UNCHANGED <<unit, domain, loginCall, validatorVars, proxyVars, clientVars, uploadVars>>

-----------------------------------------------------------------------------
(* UploadForm.tsx (src/unnamed/part_004)                                   *)

MAX_SIZE   == 5 * 1024 * 1024
ACCEPTED ==
    {"audio/mpeg", "audio/wav", "audio/x-wav", "audio/wave", "audio/x-pn-wav",
     "audio/mp4", "audio/x-m4a", "audio/aac", "audio/ogg", "audio/flac",
     "audio/webm"}
CHUNK_SIZE == 5 * 1024 * 1024

NoFile == [present |-> FALSE]
NoData == [kind |-> "none"]
File(name, size, type) == [present |-> TRUE, name |-> name, size |-> size, type |-> type]

\* The files a user can pick.
Files == {File("test.mp3", sz, ty) : sz \in FileSizes, ty \in {"audio/mpeg", "text/plain"}}
\* The files startSimpleMultipart is applied to: every size, with a type that
\* is reported and one that is not (f.type === '').
OrchFiles == {File("test.mp3", sz, "audio/mpeg") : sz \in FileSizes} \cup {File("blob", 1, "")}

\* const validateFile = (f: File): string | null
validateFile_NoTypeCheck(f) ==
    IF f.size > MAX_SIZE THEN Str("File exceeds 5MB limit") ELSE Null

validateFile_TypeFirst(f) ==
    IF f.type \notin ACCEPTED THEN Str("Unsupported file type")
    ELSE IF f.size > MAX_SIZE THEN Str("File exceeds 5MB limit")
    ELSE Null

validateFile(f) ==
    IF f.size > MAX_SIZE THEN Str("File exceeds 5MB limit")
    ELSE IF f.type \notin ACCEPTED THEN Str("Unsupported file type")
    ELSE Null

\* validateFile applied to a File of the size and type validateAudioFile is given
ValidateFile ==
    /\ unit = "validator"
    /\ vErr = NotCalled
    /\ vErr' = [called |-> TRUE, error |-> validateFile(File(vIn.name, vIn.size, vIn.type))]
    /\ UNCHANGED <<unit, vIn, vOut, clientVars, appVars, uploadVars, proxyVars>>

\* const authHeaders = useMemo(() => (token ? { Authorization: `Bearer ${token}` } : undefined))
\* (fetch treats headers: undefined as no headers)
authHeaders ==
    IF Truthy(token) THEN "Authorization" :> ("Bearer " \o token.value) ELSE NoHeaders

\* Math.ceil(n / d) for integers n >= 0, d > 0
MathCeil_Floor(n, d) == n \div d

MathCeil(n, d) == IF n % d = 0 THEN n \div d ELSE n \div d + 1

\* Math.round(x) for x = n / d >= 0: halves round up
MathRound(n, d) == (2 * n + d) \div (2 * d)

\* const truncate = (s: string, n = 1000) => ...: the default of n
TruncateLimit == 1000

\* truncate(s) on the length of s: what is kept of s and how many characters
\* the "...(+N)" suffix announces.
truncate(chars) ==
    IF chars > TruncateLimit
      THEN [kept |-> TruncateLimit, more |-> chars - TruncateLimit]
      ELSE [kept |-> chars, more |-> 0]

\* ---- the responses of the remote API and of the storage endpoint ----
\* The length of the response text: the JSON texts are short, a text that is
\* not JSON (an error page) is as long as truncate's limit or one longer.
TextLengths(body) ==
    IF body = Unparsable THEN {TruncateLimit, TruncateLimit + 1} ELSE {27}
\* A rejected fetch, or a response: ok, the parsed text, its length.
Answers(bodies) ==
    {[threw |-> TRUE]} \cup
    UNION {[threw : {FALSE}, ok : BOOLEAN, body : {b}, chars : TextLengths(b)] : b \in bodies}
StartBodies ==
    {Unparsable} \cup
    {[kind |-> "object", success |-> Bool(TRUE), uploadId |-> ids[1], key |-> ids[2], error |-> Undefined] :
        ids \in {<<Str("upload-1"), Str("key-1")>>, <<Undefined, Null>>}} \cup
    {[kind |-> "object", success |-> Bool(FALSE), uploadId |-> Undefined, key |-> Undefined, error |-> e] :
        e \in {Undefined, Str("Quota exceeded")}}
StartResponses == Answers(StartBodies)

\* urls: the length of the urls array, -1 when the body has no urls field
UrlsBodies ==
    {Unparsable} \cup
    [kind : {"object"}, success : {Bool(TRUE)}, urls : -1 .. (MaxChunks + 2)] \cup
    [kind : {"object"}, success : {Bool(FALSE)}, urls : {-1}]
UrlsResponses == Answers(UrlsBodies)

\* etag: putRes.headers.get('ETag')
PutResponses ==
    {[threw |-> TRUE]} \cup
    [threw : {FALSE}, ok : BOOLEAN, etag : {Null, Str("\"9b2cf535f27731c9\"")}]

CompleteBodies ==
    {Unparsable} \cup
    [kind : {"object"}, success : {Bool(TRUE)},
     analysisStarted : {Undefined, Bool(TRUE), Bool(FALSE)},
     upload_id : {Undefined, Str("rec-7")}, error : {Undefined}] \cup
    [kind : {"object"}, success : {Bool(FALSE)}, analysisStarted : {Undefined},
     upload_id : {Undefined}, error : {Undefined, Str("Merge failed")}]
CompleteResponses == Answers(CompleteBodies)

AnalyzeBodies ==
    {Unparsable} \cup [kind : {"object"}, success : {Bool(TRUE), Bool(FALSE)}]
AnalyzeResponses == Answers(AnalyzeBodies)

\* try { x = JSON.parse(text) } catch { x = { raw: text } }: a field of x
Field(body, fld) == IF body = Unparsable THEN Undefined ELSE body[fld]

\* const maskHeaders = (h?) => ...: /^authorization$/i on the header names
\* in use
MaskHeaders(h) ==
    [k \in DOMAIN h |-> IF k \in {"Authorization", "authorization"} THEN "Bearer ****" ELSE h[k]]

\* One line of pushLog(label, data), without its time stamp; the arrows of
\* the labels are written -> and <-.  (Response lines keep ok, for a PUT the
\* ETag header, otherwise the body text as truncate left it (text), and for
\* the fallback analyze what that text says when parsed (body); the status
\* is not modelled.)
Log(label, data) == [line |-> label, data |-> data]

\* setProgress(Math.round(((i + 1) / parts) * 80))
PartProgress_Percent(i, n) == ((2 * ((i + 1) * 100)) + n) \div (2 * n)

PartProgress_Full(i, n) == IF i + 1 = n THEN 100 ELSE ((2 * ((i + 1) * 80)) + n) \div (2 * n)

PartProgress(i, n) == MathRound((i + 1) * 80, n)

\* ---- the fetches startSimpleMultipart issues ----
StartCall(f) ==
    Call("start-upload", "proxy", "/api/upload-large", "POST", authHeaders,
         [action |-> "start-upload", fileName |-> f.name, fileSize |-> f.size,
          contentType |-> IF f.type # "" THEN f.type ELSE "application/octet-stream"])

UrlsCall(k, u, n) ==
    Call("get-upload-urls", "proxy", "/api/upload-large", "POST", authHeaders,
         [action |-> "get-upload-urls", key |-> k, uploadId |-> u, parts |-> n])

\* fetch(partUrl, { method: 'PUT', body: chunk }); partUrl = String(urlsData.urls[i])
PutCall_Reverse(i, nUrls) ==
    Call("put-part", "direct", IF i < nUrls THEN "presigned-url" ELSE "undefined",
         "PUT", NoHeaders, [part |-> parts - i])

PutCall_ViaProxy(i, nUrls) ==
    Call("put-part", "proxy", IF i < nUrls THEN "presigned-url" ELSE "undefined",
         "PUT", authHeaders, [part |-> i + 1])

PutCall(i, nUrls) ==
    Call("put-part", "direct", IF i < nUrls THEN "presigned-url" ELSE "undefined",
         "PUT", NoHeaders, [part |-> i + 1])

CompleteCall(k, u, ps, f) ==
    Call("complete-upload", "proxy", "/api/upload-large", "POST", authHeaders,
         [action |-> "complete-upload", key |-> k, uploadId |-> u, parts |-> ps,
          fileName |-> f.name, fileSize |-> f.size])

AnalyzeCall(id) ==
    Call("analyze", "proxy", "/api/analyze", "POST",
         Spread(authHeaders, "Content-Type" :> "application/json"),
         [uploadIds |-> <<id>>, analysisType |-> "parameters"])

\* handleFileChange; <input type="file" disabled={uploading} />
HandleFileChange_WhileUploading(f) ==
    /\ unit = "app"
    /\ isAuthenticated
    /\ LET err == validateFile(f) IN
         IF Truthy(err)
           THEN error' = err /\ file' = NoFile
           ELSE error' = Null /\ file' = f
    /\ UNCHANGED <<unit, validatorVars, proxyVars, clientVars, appVars, uploading, progress, pc,
                   calls, outstanding, runFile, uploadId, key, parts, urls, partIdx,
                   uploadedParts, completeData, completeRes, failedAt, completions, logs>>

HandleFileChange(f) ==
    /\ unit = "app"
    /\ isAuthenticated /\ ~uploading
    /\ LET err == validateFile(f) IN
         IF Truthy(err)
           THEN error' = err /\ file' = NoFile
           ELSE error' = Null /\ file' = f
    /\ UNCHANGED <<unit, validatorVars, proxyVars, clientVars, appVars, uploading, progress, pc,
                   calls, outstanding, runFile, uploadId, key, parts, urls, partIdx,
                   uploadedParts, completeData, completeRes, failedAt, completions, logs>>

\* pushLog('Upload failed', err?.message || String(err))
FailedLine(msg) == Log("Upload failed", [message |-> msg])

\* handleUpload's catch and finally blocks, entered with the Error message msg
\* thrown in the given phase.
Abort_Swallow(phase, msg) ==
    /\ error' = Str(msg)
    /\ UNCHANGED <<completions, statusMessage>>
    /\ uploading' = FALSE
    /\ failedAt' = phase
    /\ pc' = "idle"

Abort(phase, msg) ==
    /\ error' = Str(msg)
    /\ completions' = Append(completions, "Upload error: " \o msg)
    /\ statusMessage' = "Upload error: " \o msg
    /\ uploading' = FALSE
    /\ failedAt' = phase
    /\ pc' = "idle"

\* startSimpleMultipart returns completeData; handleUpload reports and its
\* finally block runs.
Finish_Silent(data) ==
    /\ uploading' = FALSE
    /\ pc' = "idle"
    /\ UNCHANGED <<error, failedAt, completions, statusMessage>>

Finish(data) ==
    LET msg == IF Truthy(data.success) THEN "Upload & analysis triggered successfully."
               ELSE "Upload completed but analysis may not have started."
    IN  /\ completions' = Append(completions, msg)
        /\ statusMessage' = msg
        /\ uploading' = FALSE
        /\ pc' = "idle"
        /\ UNCHANGED <<error, failedAt>>

\* handleUpload, and startSimpleMultipart up to its first await: the
\* start-upload fetch is issued.
HandleUpload ==
    /\ unit \in {"app", "orchestrator"}
    /\ isAuthenticated
    /\ file # NoFile /\ ~uploading
    /\ uploading' = TRUE
    /\ progress' = 5
    /\ error' = Null
    /\ runFile' = file
    /\ calls' = <<StartCall(file)>>
    /\ outstanding' = 1
    /\ pc' = "start"
    /\ uploadId' = Undefined /\ key' = Undefined
    /\ parts' = 0 /\ urls' = -1 /\ partIdx' = 0
    /\ uploadedParts' = << >>
    /\ completeData' = NoData /\ completeRes' = NoData
    /\ failedAt' = "none"
    /\ completions' = << >>
    /\ logs' = <<Log("Begin upload", [name |-> file.name, size |-> file.size, type |-> file.type]),
                 Log("-> POST start-upload", [headers |-> MaskHeaders(authHeaders)])>>
    /\ UNCHANGED <<unit, file, validatorVars, proxyVars, clientVars, appVars>>

\* From the answer to start-upload to the get-upload-urls fetch.
StartResponse(res) ==
    /\ pc = "start"
    /\ IF res.threw
         THEN /\ Abort("start", "Failed to fetch")
              /\ logs' = Append(logs, FailedLine("Failed to fetch"))
              /\ outstanding' = outstanding - 1
              /\ UNCHANGED <<calls, uploadId, key, parts>>
       ELSE IF ~res.ok \/ ~Truthy(Field(res.body, "success"))
         THEN /\ Abort("start", JsOr(Field(res.body, "error"), Str("Failed to start upload")).value)
              /\ logs' = logs \o <<Log("<- start-upload response", [ok |-> res.ok, text |-> truncate(res.chars)]),
                                    FailedLine(JsOr(Field(res.body, "error"),
                                                    Str("Failed to start upload")).value)>>
              /\ outstanding' = outstanding - 1
              /\ UNCHANGED <<calls, uploadId, key, parts>>
         ELSE /\ logs' = logs \o <<Log("<- start-upload response", [ok |-> res.ok, text |-> truncate(res.chars)]),
                                    Log("start-upload ok", [uploadId |-> res.body.uploadId]),
                                    Log("-> POST get-upload-urls",
                                        [parts |-> MathCeil(runFile.size, CHUNK_SIZE),
                                         headers |-> MaskHeaders(authHeaders)])>>
              /\ uploadId' = res.body.uploadId
              /\ key' = res.body.key
              /\ parts' = MathCeil(runFile.size, CHUNK_SIZE)
              /\ calls' = Append(calls, UrlsCall(res.body.key, res.body.uploadId, parts'))
              /\ outstanding' = outstanding - 1 + 1
              /\ pc' = "urls"
              /\ UNCHANGED <<error, completions, statusMessage, uploading, failedAt>>
    /\ UNCHANGED <<unit, file, progress, runFile, urls, partIdx, uploadedParts, completeData,
                   completeRes, domain, token, isAuthenticated, loading, loginCall, loginRes, validatorVars, proxyVars, clientVars>>

\* From the answer to get-upload-urls to the first PUT (or, with no part to
\* transfer, to the complete-upload fetch).
UrlsResponse(res) ==
    /\ pc = "urls"
    /\ IF res.threw
         THEN /\ Abort("urls", "Failed to fetch")
              /\ logs' = Append(logs, FailedLine("Failed to fetch"))
              /\ outstanding' = outstanding - 1
              /\ UNCHANGED <<calls, urls>>
       ELSE IF ~res.ok \/ ~Truthy(Field(res.body, "success"))
         THEN /\ Abort("urls", "Failed to get upload URLs")
              /\ logs' = logs \o <<Log("<- get-upload-urls response", [ok |-> res.ok, text |-> truncate(res.chars)]),
                                    FailedLine("Failed to get upload URLs")>>
              /\ outstanding' = outstanding - 1
              /\ UNCHANGED <<calls, urls>>
       ELSE IF parts = 0
         THEN \* the loop body never runs
              /\ logs' = logs \o <<Log("<- get-upload-urls response", [ok |-> res.ok, text |-> truncate(res.chars)]),
                                    Log("-> POST complete-upload",
                                        [parts |-> 0, headers |-> MaskHeaders(authHeaders)])>>
              /\ urls' = res.body.urls
              /\ calls' = Append(calls, CompleteCall(key, uploadId, uploadedParts, runFile))
              /\ outstanding' = outstanding - 1 + 1
              /\ pc' = "complete"
              /\ UNCHANGED <<error, completions, statusMessage, uploading, failedAt>>
       ELSE IF res.body.urls = -1
         THEN \* urlsData.urls[0] on undefined: a TypeError
              /\ Abort("urls", "Cannot read properties of undefined (reading '0')")
              /\ logs' = logs \o <<Log("<- get-upload-urls response", [ok |-> res.ok, text |-> truncate(res.chars)]),
                                    FailedLine("Cannot read properties of undefined (reading '0')")>>
              /\ outstanding' = outstanding - 1
              /\ urls' = -1
              /\ UNCHANGED calls
         ELSE /\ logs' = logs \o <<Log("<- get-upload-urls response", [ok |-> res.ok, text |-> truncate(res.chars)]),
                                    Log("-> PUT part", [part |-> 1, of |-> parts])>>
              /\ urls' = res.body.urls
              /\ calls' = Append(calls, PutCall(0, res.body.urls))
              /\ outstanding' = outstanding - 1 + 1
              /\ pc' = "put"
              /\ UNCHANGED <<error, completions, statusMessage, uploading, failedAt>>
    /\ UNCHANGED <<unit, file, progress, runFile, uploadId, key, parts, partIdx, uploadedParts,
                   completeData, completeRes, domain, token, isAuthenticated, loading, loginCall, loginRes,
                   validatorVars, proxyVars, clientVars>>

\* The part recorded for the answer of PUT number i + 1.
\* const etag = putRes.headers.get('ETag') || `"etag-${i+1}-${Date.now()}"`
PartResult_ZeroBased(i, etag) ==
    [ETag |-> JsOr(etag, Str("\"etag-" \o ToString(i + 1) \o "-<now>\"")).value,
     PartNumber |-> i]

PartResult_RawEtag(i, etag) ==
    [ETag |-> IF etag.kind = "string" THEN etag.value ELSE "null", PartNumber |-> i + 1]

PartResult(i, etag) ==
    [ETag |-> JsOr(etag, Str("\"etag-" \o ToString(i + 1) \o "-<now>\"")).value,
     PartNumber |-> i + 1]

\* From the answer to the PUT of part partIdx + 1 to the next fetch.
PutResponse(res) ==
    /\ pc = "put"
    /\ IF res.threw
         THEN /\ Abort("put", "Failed to fetch")
              /\ logs' = Append(logs, FailedLine("Failed to fetch"))
              /\ outstanding' = outstanding - 1
              /\ UNCHANGED <<calls, uploadedParts, progress, partIdx>>
       ELSE IF ~res.ok
         THEN /\ Abort("put", "Chunk " \o ToString(partIdx + 1) \o " failed")
              /\ logs' = logs \o <<Log("<- PUT part response",
                                        [part |-> partIdx + 1, ok |-> res.ok, etag |-> res.etag]),
                                    FailedLine("Chunk " \o ToString(partIdx + 1) \o " failed")>>
              /\ outstanding' = outstanding - 1
              /\ UNCHANGED <<calls, uploadedParts, progress, partIdx>>
         ELSE /\ uploadedParts' = Append(uploadedParts, PartResult(partIdx, res.etag))
              /\ progress' = PartProgress(partIdx, parts)
              /\ partIdx' = partIdx + 1
              /\ IF partIdx + 1 < parts
                   THEN /\ calls' = Append(calls, PutCall(partIdx + 1, urls))
                        /\ logs' = logs \o <<Log("<- PUT part response",
                                                  [part |-> partIdx + 1, ok |-> res.ok,
                                                   etag |-> res.etag]),
                                              Log("-> PUT part", [part |-> partIdx + 2, of |-> parts])>>
                        /\ pc' = "put"
                   ELSE /\ calls' = Append(calls, CompleteCall(key, uploadId, uploadedParts', runFile))
                        /\ logs' = logs \o <<Log("<- PUT part response",
                                                  [part |-> partIdx + 1, ok |-> res.ok,
                                                   etag |-> res.etag]),
                                              Log("-> POST complete-upload",
                                                  [parts |-> Len(uploadedParts'),
                                                   headers |-> MaskHeaders(authHeaders)])>>
                        /\ pc' = "complete"
              /\ outstanding' = outstanding - 1 + 1
              /\ UNCHANGED <<error, completions, statusMessage, uploading, failedAt>>
    /\ UNCHANGED <<unit, file, runFile, uploadId, key, parts, urls, completeData,
                   completeRes, domain, token, isAuthenticated, loading, loginCall, loginRes, validatorVars, proxyVars, clientVars>>

\* if (!completeData.analysisStarted && completeData?.upload?.id)
NeedsFallback_OnlyExplicitFalse(data) ==
    data.analysisStarted = Bool(FALSE) /\ Truthy(data.upload_id)

NeedsFallback(data) == ~Truthy(data.analysisStarted) /\ Truthy(data.upload_id)

\* From the answer to complete-upload to the fallback analyze fetch, or to
\* the end of handleUpload.
CompleteResponse(res) ==
    /\ pc = "complete"
    /\ IF res.threw
         THEN /\ Abort("complete", "Failed to fetch")
              /\ logs' = Append(logs, FailedLine("Failed to fetch"))
              /\ UNCHANGED <<calls, progress, completeData, completeRes>>
              /\ outstanding' = outstanding - 1
       ELSE IF ~res.ok \/ ~Truthy(Field(res.body, "success"))
         THEN /\ Abort("complete", JsOr(Field(res.body, "error"), Str("Failed to complete upload")).value)
              /\ logs' = logs \o <<Log("<- complete-upload response", [ok |-> res.ok, text |-> truncate(res.chars)]),
                                    FailedLine(JsOr(Field(res.body, "error"),
                                                    Str("Failed to complete upload")).value)>>
              /\ UNCHANGED <<calls, progress, completeData, completeRes>>
              /\ outstanding' = outstanding - 1
         ELSE /\ progress' = 100
              /\ completeRes' = res.body
              /\ completeData' = res.body @@ [message |-> Undefined]
              /\ IF NeedsFallback(res.body)
                   THEN /\ calls' = Append(calls, AnalyzeCall(res.body.upload_id.value))
                        /\ logs' = logs \o <<Log("<- complete-upload response", [ok |-> res.ok, text |-> truncate(res.chars)]),
                                              Log("-> POST analyze (fallback)",
                                                  [uploadId |-> res.body.upload_id,
                                                   headers |-> MaskHeaders(
                                                       Spread(authHeaders,
                                                              "Content-Type" :> "application/json"))])>>
                        /\ outstanding' = outstanding - 1 + 1
                        /\ pc' = "analyze"
                        /\ UNCHANGED <<error, completions, statusMessage, uploading, failedAt>>
                   ELSE /\ Finish(res.body)
                        /\ logs' = Append(logs, Log("<- complete-upload response", [ok |-> res.ok, text |-> truncate(res.chars)]))
                        /\ outstanding' = outstanding - 1
                        /\ UNCHANGED calls
    /\ UNCHANGED <<unit, file, runFile, uploadId, key, parts, urls, partIdx, uploadedParts,
                   domain, token, isAuthenticated, loading, loginCall, loginRes, validatorVars, proxyVars, clientVars>>

\* From the answer to the fallback analyze to the end of handleUpload.
AnalyzeResponse_Fatal(res) ==
    /\ pc = "analyze"
    /\ IF ~res.threw /\ res.ok /\ Truthy(Field(res.body, "success"))
         THEN /\ completeData' = [completeData EXCEPT !.analysisStarted = Bool(TRUE),
                                     !.message = Str("File uploaded and analysis started (fallback trigger).")]
              /\ Finish(completeData')
         ELSE /\ Abort("analyze", "Analysis failed")
              /\ UNCHANGED completeData
    /\ logs' = Append(logs,
                      IF res.threw
                        THEN Log("Fallback analyze trigger failed", [message |-> "Failed to fetch"])
                        ELSE Log("<- analyze response", [ok |-> res.ok, body |-> res.body,
                                                        text |-> truncate(res.chars)]))
    /\ outstanding' = outstanding - 1
    /\ UNCHANGED <<unit, file, progress, calls, runFile, uploadId, key, parts, urls, partIdx,
                   uploadedParts, completeRes, domain, token, isAuthenticated, loading, loginCall, loginRes,
                   validatorVars, proxyVars, clientVars>>

AnalyzeResponse(res) ==
    /\ pc = "analyze"
    /\ completeData' =
         IF ~res.threw /\ res.ok /\ Truthy(Field(res.body, "success"))
           THEN [completeData EXCEPT !.analysisStarted = Bool(TRUE),
                                     !.message = Str("File uploaded and analysis started (fallback trigger).")]
           ELSE completeData
    /\ logs' = Append(logs,
                      IF res.threw
                        THEN Log("Fallback analyze trigger failed", [message |-> "Failed to fetch"])
                        ELSE Log("<- analyze response", [ok |-> res.ok, body |-> res.body,
                                                        text |-> truncate(res.chars)]))
    /\ Finish(completeData')
    /\ outstanding' = outstanding - 1
    /\ UNCHANGED <<unit, file, progress, calls, runFile, uploadId, key, parts, urls, partIdx,
                   uploadedParts, completeRes, domain, token, isAuthenticated, loading, loginCall, loginRes,
                   validatorVars, proxyVars, clientVars>>

-----------------------------------------------------------------------------
(* vite.config.ts: the /proxy middleware                                   *)

\* A piece of text that is meant to be a URL, kept by its parts: the text is
\* pad \o prefix \o host \o [":" \o port] \o path \o pad.  prefix is the
\* scheme with its "://" ("" when the text has none), pad is surrounding
\* white space.
Url(prefix, host, port, path) ==
    [kind |-> "text", pad |-> "", prefix |-> prefix, host |-> host, port |-> port,
     path |-> path]
Padded(u) == [u EXCEPT !.pad = " "]

\* The string itself.
Text(u) ==
    u.pad \o u.prefix \o u.host \o (IF u.port = "" THEN "" ELSE ":" \o u.port)
          \o u.path \o u.pad

\* String.prototype.trim
Trim(u) == [u EXCEPT !.pad = ""]

\* /^https?:\/\//i.test(target)
HttpPrefix(u) == u.pad = "" /\ ToLowerCase(u.prefix) \in {"http://", "https://"}

\* new URL(text) throws unless the text has a scheme and, for http, https and
\* ftp, a host.
CanParse(u) == u.prefix # "" /\ u.host # ""

DefaultPort(prefix) ==
    CASE prefix = "https://" -> "443"
      [] prefix = "http://"  -> "80"
      [] prefix = "ftp://"   -> "21"
      [] OTHER               -> ""

\* new URL(text).toString(): scheme and host in lower case, the default port
\* dropped, an empty path replaced by "/".
Serialize(u) ==
    LET pre == ToLowerCase(u.prefix) IN
    [kind |-> "text", pad |-> "", prefix |-> pre, host |-> ToLowerCase(u.host),
     port |-> IF u.port = DefaultPort(pre) THEN "" ELSE u.port,
     path |-> IF u.path = "" THEN "/" ELSE u.path]

\* URL.origin
Origin(u) ==
    LET n == Serialize(u) IN
    n.prefix \o n.host \o (IF n.port = "" THEN "" ELSE ":" \o n.port)

\* new URL(location, currentUrl).toString(), or threw: an absolute location
\* stands for itself, a path is resolved against the current URL.
Resolve(location, current) ==
    IF location.prefix # ""
      THEN IF CanParse(location)
             THEN [threw |-> FALSE, url |-> Serialize(Trim(location))]
             ELSE [threw |-> TRUE]
      ELSE [threw |-> FALSE, url |-> Serialize([current EXCEPT !.path = location.path])]

\* ---- the inbound requests ----
TargetA     == Url("https://", "a.example", "", "/api/upload-large")
TargetAUp   == Url("HTTPS://", "A.Example", "443", "/api/auth/login")
TargetAHttp == Url("http://", "a.example", "", "/api/analyze")

\* url.searchParams.get('url'): null when the parameter is missing
Targets ==
    {Null, Url("", "", "", ""), Url("", "", "", "/api/analyze"),
     Url("ftp://", "a.example", "", "/file"), Url("http://", "", "", ""),
     TargetA, TargetAUp, TargetAHttp}

\* req.headers['x-target-base']: undefined when the header is missing
Bases ==
    {Undefined, Padded(Url("", "", "", "")), Padded(Url("https://", "a.example", "", "")),
     Url("https://", "b.example", "", "/base"), Url("", "a.example", "", "")}

\* req.headers without x-target-base (Node gives the names in lower case)
BrowserHeaders ==
    ("host" :> "localhost:5173") @@ ("connection" :> "keep-alive") @@
    ("accept-encoding" :> "gzip, deflate, br") @@ ("origin" :> "http://localhost:5173") @@
    ("referer" :> "http://localhost:5173/") @@
    ("content-type" :> "text/plain;charset=UTF-8") @@ ("content-length" :> "27") @@
    ("authorization" :> "Bearer tokA") @@ ("cookie" :> "sid=1")
PlainHeaders == ("host" :> "localhost:5173") @@ ("accept" :> "*/*") @@ ("x-empty" :> "")

\* req.method with req.headers
Inbound ==
    {<<"GET", PlainHeaders>>, <<"HEAD", PlainHeaders>>, <<"POST", BrowserHeaders>>}

ProxyRequests ==
    {[target |-> t, base |-> b, method |-> m[1], headers |-> m[2]] :
        t \in Targets, b \in Bases, m \in Inbound}

\* the body the request streams in: its length, 0 when no chunk arrives
BodyLengths == {0, 27}

\* ---- the upstream responses ----
\* response.headers.get('location'): null when the header is missing; a path,
\* an absolute URL, a text that is no URL
Locations ==
    {Null, Url("", "", "", "/login"), Url("https://", "b.example", "", "/next"),
     Url("https://", "", "", "")}
FinalStatuses    == {200, 204}
RedirectStatuses == {301, 302, 303, 304, 307, 308}
JsonHeaders ==
    ("content-type" :> "application/json") @@ ("content-length" :> "17") @@
    ("set-cookie" :> "sid=2")
UpstreamResponses ==
    [threw : {TRUE}, message : {Undefined, Str("fetch failed")}] \cup
    [threw : {FALSE}, status : FinalStatuses, location : {Null},
     headers : {NoHeaders, JsonHeaders}] \cup
    [threw : {FALSE}, status : RedirectStatuses, location : Locations,
     headers : {NoHeaders}]

\* nothing has been sent to the caller yet
NoResponse == [sent |-> FALSE]

\* if (v): a text that is present and not empty
TextTruthy(v) == v.kind = "text" /\ Text(v) # ""

maxRedirects == 5

hopByHop ==
    {"host", "connection", "keep-alive", "proxy-authenticate", "proxy-authorization",
     "te", "trailer", "transfer-encoding", "upgrade", "accept-encoding", "origin",
     "referer"}

\* fwdHeaders: the inbound headers (x-target-base among them) without the
\* empty ones and the hop-by-hop ones, with accept-encoding: identity
FwdHeaders_PassEncoding(req) ==
    LET all  == IF req.base = Undefined THEN req.headers
                ELSE ("x-target-base" :> Text(req.base)) @@ req.headers
        kept == {k \in DOMAIN all : all[k] # "" /\ k \notin (hopByHop \ {"accept-encoding", "referer"})}
    IN  [k \in kept |-> all[k]]

FwdHeaders(req) ==
    LET all  == IF req.base = Undefined THEN req.headers
                ELSE ("x-target-base" :> Text(req.base)) @@ req.headers
        kept == {k \in DOMAIN all : all[k] # "" /\ k \notin hopByHop}
    IN  [k \in kept \cup {"accept-encoding"} |->
            IF k = "accept-encoding" THEN "identity" ELSE all[k]]

\* body = chunks.length ? Buffer.concat(chunks) : undefined
Buffer(n) == IF n = 0 THEN Undefined ELSE [kind |-> "buffer", length |-> n]

\* if (body) fwdHeaders['content-length'] = String(body.length)
WithContentLength(fwd, body) ==
    IF body = Undefined THEN fwd
    ELSE ("content-length" :> ToString(body.length)) @@ fwd

\* delete obj[name]
Delete(h, name) == [k \in DOMAIN h \ {name} |-> h[k]]

\* status >= 300 && status < 400 && location
IsRedirect(res) == res.status >= 300 /\ res.status < 400 /\ TextTruthy(res.location)

\* The current request after a redirect with the given status to nextUrl.
Follow_KeepMethod(cur, status, nextUrl) == [cur EXCEPT !.url = nextUrl]

Follow_DowngradeAll(cur, status, nextUrl) ==
    [url |-> nextUrl, method |-> "GET", body |-> Undefined,
     headers |-> Delete(Delete(cur.headers, "content-length"), "content-type")]

Follow_Pinned(cur, status, nextUrl) ==
    IF /\ pReq.base # Undefined /\ TextTruthy(Trim(pReq.base))
       /\ Origin(nextUrl) # Origin(Trim(pReq.base))
      THEN cur
    ELSE IF status \in {301, 302, 303}
      THEN LET h == Delete(cur.headers, "content-length") IN
           [url |-> nextUrl, method |-> "GET", body |-> Undefined,
            headers |-> IF HasHeader(h, "content-type") /\ h["content-type"] # ""
                          THEN Delete(h, "content-type") ELSE h]
      ELSE [cur EXCEPT !.url = nextUrl]

Follow(cur, status, nextUrl) ==
    IF status \in {301, 302, 303}
      THEN LET h == Delete(cur.headers, "content-length") IN
           [url |-> nextUrl, method |-> "GET", body |-> Undefined,
            \* if (currentHeaders['content-type']) delete currentHeaders['content-type']
            headers |-> IF HasHeader(h, "content-type") /\ h["content-type"] # ""
                          THEN Delete(h, "content-type") ELSE h]
      ELSE [cur EXCEPT !.url = nextUrl]

\* The headers copied back from the upstream response.
RelayHeaders(h) ==
    [k \in DOMAIN h \ {"transfer-encoding", "content-encoding", "content-length"} |-> h[k]]

\* res.statusCode = status; res.end(body), with the headers set on res.
\* (Header names are case-insensitive; the model keeps them in lower case.)
Respond(status, headers, body) ==
    /\ pRes' = [sent |-> TRUE, status |-> status, headers |-> headers, body |-> body]
    /\ pPc' = "done"

\* The catch block, entered with an Error of message msg thrown at `what`,
\* with the headers already set on res.
Catch_Swallow(what, msg, headers) ==
    /\ pRes' = pRes
    /\ pPc' = "done"
    /\ pThrown' = what

Catch(what, msg, headers) ==
    /\ Respond(502, ("content-type" :> "text/plain; charset=utf-8") @@ headers,
               "Proxy error: " \o JsOr(msg, Str("unknown")).value)
    /\ pThrown' = what

\* response = await fetch(currentUrl, {...}) up to the await: fetch rejects a
\* URL it cannot parse without sending anything.
Fetch(cur, via) ==
    IF CanParse(cur.url)
      THEN /\ pFetch' = [issued |-> TRUE, url |-> cur.url, method |-> cur.method,
                         headers |-> cur.headers, body |-> cur.body]
           /\ pCount' = pCount + 1
           /\ pVia' = via
           /\ pPc' = "fetch"
           /\ UNCHANGED <<pRes, pThrown>>
      ELSE /\ Catch("fetch", Str("Failed to parse URL"), NoHeaders)
           /\ UNCHANGED <<pFetch, pCount, pVia>>

\* redactedHeaders, as console.log(`[Proxy ${reqId}] outbound headers:`, ...)
\* prints it
RedactedHeaders_AuthOnly(fwd) ==
    [emitted |-> TRUE,
     headers |-> [k \in DOMAIN fwd |->
                    IF ToLowerCase(k) \in {"authorization"} THEN "<redacted>" ELSE fwd[k]]]

RedactedHeaders(fwd) ==
    [emitted |-> TRUE,
     headers |-> [k \in DOMAIN fwd |->
                    IF ToLowerCase(k) \in {"authorization", "cookie", "set-cookie"}
                      THEN "<redacted>" ELSE fwd[k]]]

\* sameOrigin
SameOrigin_HostOnly(targetUrl, baseUrl) == Serialize(targetUrl).host = Serialize(baseUrl).host

SameOrigin(targetUrl, baseUrl) == Origin(targetUrl) = Origin(baseUrl)

\* The answer of the checks of lines 21-47: a status and a message, or
\* status 0 when the request passes.
CheckTarget(req) ==
    LET target == req.target
        base   == IF req.base = Undefined THEN Undefined ELSE Trim(req.base)
    IN  IF ~TextTruthy(target) THEN [status |-> 400, body |-> "Missing url param"]
        ELSE IF ~HttpPrefix(target) THEN [status |-> 400, body |-> "Invalid target url"]
        ELSE IF TextTruthy(base)
          THEN IF ~CanParse(target) \/ ~CanParse(base)
                 THEN [status |-> 400, body |-> "Invalid X-Target-Base"]
               ELSE IF ~SameOrigin(target, base)
                 THEN [status |-> 403, body |-> "Target not allowed for provided X-Target-Base"]
               ELSE [status |-> 0, body |-> ""]
          ELSE [status |-> 0, body |-> ""]

\* The middleware from the arrival of the request to its first await: the
\* checks, fwdHeaders and, for GET and HEAD, the first upstream fetch.
ProxyReceive ==
    /\ unit = "proxy"
    /\ pPc = "received"
    /\ LET chk == CheckTarget(pReq)
           fwd == FwdHeaders(pReq)
       IN  IF chk.status # 0
             THEN /\ Respond(chk.status, NoHeaders, chk.body)
                  /\ UNCHANGED <<pFwd, pCur, pFetch, pCount, pVia, pThrown, pLog>>
           ELSE IF pReq.method \notin {"GET", "HEAD"}
             THEN /\ pFwd' = fwd
                  /\ pPc' = "body"
                  /\ UNCHANGED <<pCur, pFetch, pCount, pVia, pThrown, pRes, pLog>>
             ELSE /\ pFwd' = fwd
                  /\ pLog' = RedactedHeaders(fwd)
                  /\ pCur' = [url |-> pReq.target, method |-> pReq.method,
                              headers |-> fwd, body |-> Undefined]
                  /\ Fetch(pCur', 0)
    /\ UNCHANGED <<unit, pReq, pBody, pHop, pDowngraded, pRedirects, pResponse, pLocation,
                   validatorVars, clientVars, appVars, uploadVars>>

\* The request body has arrived (n bytes) or its stream failed: from the
\* await of lines 76-80 to the first upstream fetch.
ProxyBody(failed, n) ==
    /\ unit = "proxy"
    /\ pPc = "body"
    /\ IF failed
         THEN /\ Catch("body", Str("aborted"), NoHeaders)
              /\ UNCHANGED <<pFwd, pBody, pCur, pFetch, pCount, pVia, pLog>>
         ELSE /\ pBody' = Buffer(n)
              /\ pFwd' = WithContentLength(pFwd, pBody')
              /\ pLog' = RedactedHeaders(pFwd')
              /\ pCur' = [url |-> pReq.target, method |-> pReq.method,
                          headers |-> pFwd', body |-> pBody']
              /\ Fetch(pCur', 0)
    /\ UNCHANGED <<unit, pReq, pHop, pDowngraded, pRedirects, pResponse, pLocation,
                   validatorVars, clientVars, appVars, uploadVars>>

\* Lines 143-166 up to the await of response.arrayBuffer().
Relay_RedirectIsError(res) ==
    /\ pResponse' = res
    /\ IF res.status >= 300 /\ res.status < 400
         THEN Respond(502, NoHeaders, "Proxy error: unexpected redirect")
         ELSE IF res.status = 204
           THEN Respond(res.status, RelayHeaders(res.headers), "")
           ELSE pPc' = "read" /\ UNCHANGED pRes
    /\ UNCHANGED pThrown

Relay(res) ==
    /\ pResponse' = res
    /\ IF res.status \in {204, 304}
         THEN Respond(res.status, RelayHeaders(res.headers), "")
         ELSE pPc' = "read" /\ UNCHANGED pRes
    /\ UNCHANGED pThrown

\* The upstream fetch has answered (or rejected): the rest of the loop body,
\* then the next fetch or the relay of the response.
ProxyUpstream(res) ==
    /\ unit = "proxy"
    /\ pPc = "fetch"
    /\ IF res.threw
         THEN /\ Catch("fetch", res.message, NoHeaders)
              /\ UNCHANGED <<pCur, pHop, pFetch, pCount, pVia, pDowngraded, pRedirects,
                             pResponse>>
       ELSE IF IsRedirect(res)
         THEN LET next == Resolve(res.location, pCur.url) IN
              IF next.threw
                THEN /\ Catch("location", Str("Invalid URL"), NoHeaders)
                     /\ pRedirects' = pRedirects + 1
                     /\ UNCHANGED <<pCur, pHop, pFetch, pCount, pVia, pDowngraded,
                                    pResponse>>
                ELSE /\ pCur' = Follow(pCur, res.status, next.url)
                     /\ pRedirects' = pRedirects + 1
                     /\ IF pHop = maxRedirects
                          THEN \* Too many redirects: break
                               /\ Relay(res)
                               /\ UNCHANGED <<pHop, pFetch, pCount, pVia, pDowngraded>>
                          ELSE /\ pHop' = pHop + 1
                               /\ pDowngraded' = (pDowngraded \/ res.status \in {301, 302, 303})
                               /\ Fetch(pCur', res.status)
                               /\ UNCHANGED pResponse
         ELSE /\ Relay(res)
              /\ UNCHANGED <<pCur, pHop, pFetch, pCount, pVia, pDowngraded, pRedirects>>
    /\ pLocation' = IF /\ ~res.threw /\ IsRedirect(res)
                       /\ ~Resolve(res.location, pCur.url).threw
                       /\ pHop < maxRedirects
                      THEN res.location ELSE pLocation
    /\ UNCHANGED <<unit, pReq, pFwd, pBody, pLog, validatorVars, clientVars, appVars, uploadVars>>

\* response.arrayBuffer() has resolved or rejected: the rest of the handler.
ProxyRead(failed) ==
    /\ unit = "proxy"
    /\ pPc = "read"
    /\ IF failed
         THEN Catch("read", Str("terminated"), RelayHeaders(pResponse.headers))
         ELSE /\ Respond(pResponse.status,
                         ("content-length" :> "<buf.length>") @@ RelayHeaders(pResponse.headers),
                         "<upstream body>")
              /\ UNCHANGED pThrown
    /\ UNCHANGED <<unit, pReq, pFwd, pBody, pCur, pHop, pFetch, pVia, pLocation, pDowngraded,
                   pCount, pRedirects, pResponse, pLog, validatorVars, clientVars, appVars, uploadVars>>

-----------------------------------------------------------------------------
(* Initial states and specifications                                       *)

IdleValidator ==
    /\ vIn = [name |-> "test.mp3", size |-> 0, type |-> "audio/mpeg"]
    /\ vOut = NotCalled /\ vErr = NotCalled

IdleClient ==
    /\ cToken = Undefined /\ cForce = FALSE /\ cCall = NoCall /\ cRes = NoCall
    /\ cOutcome = NoCall /\ cSets = 0 /\ cTokenAtCall = Undefined /\ cLog = NoLog

\* App's useState initial values
IdleApp ==
    /\ token = Null /\ isAuthenticated = FALSE /\ loading = FALSE
    /\ statusMessage = "" /\ loginCall = NoCall /\ loginRes = NoCall
    /\ domain = DefaultDomain

\* UploadForm's useState initial values; no upload run yet
IdleUpload ==
    /\ file = NoFile /\ uploading = FALSE /\ progress = 0 /\ error = Null
    /\ pc = "idle" /\ calls = << >> /\ outstanding = 0 /\ runFile = NoFile
    /\ uploadId = Undefined /\ key = Undefined /\ parts = 0 /\ urls = -1
    /\ partIdx = 0 /\ uploadedParts = << >> /\ completeData = NoData
    /\ completeRes = NoData
    /\ failedAt = "none" /\ completions = << >> /\ logs = << >>

\* no proxy request
IdleProxy ==
    /\ pReq = NoCall /\ pPc = "off" /\ pFwd = NoHeaders /\ pBody = Undefined
    /\ pCur = NoCall /\ pHop = 0 /\ pFetch = NoCall /\ pVia = 0
    /\ pLocation = Null /\ pLog = NoLog
    /\ pDowngraded = FALSE /\ pCount = 0 /\ pRedirects = 0 /\ pThrown = "none"
    /\ pResponse = Null /\ pRes = NoResponse

\* validateAudioFile applied to each input
InitValidate ==
    /\ unit = "validator"
    /\ vIn \in ValidatorInputs /\ vOut = NotCalled /\ vErr = NotCalled
    /\ IdleClient /\ IdleApp /\ IdleUpload /\ IdleProxy

\* new ApiClient({ baseUrl, token })
InitClient ==
    /\ unit = "client"
    /\ cToken \in ClientTokens
    /\ cForce = FALSE /\ cCall = NoCall /\ cRes = NoCall /\ cOutcome = NoCall /\ cSets = 0
    /\ cTokenAtCall = Undefined /\ cLog = NoLog
    /\ IdleValidator /\ IdleApp /\ IdleUpload /\ IdleProxy

\* <App /> mounted
InitApp ==
    /\ unit = "app"
    /\ IdleValidator /\ IdleClient /\ IdleApp /\ IdleUpload /\ IdleProxy

\* startSimpleMultipart (through handleUpload) applied to each File, with and
\* without a bearer token
InitOrch ==
    /\ unit = "orchestrator"
    /\ token \in {Null, Str("tokA")} /\ isAuthenticated = TRUE /\ loading = FALSE
    /\ statusMessage = "" /\ loginCall = NoCall /\ loginRes = NoCall
    /\ domain = DefaultDomain
    /\ file \in OrchFiles
    /\ uploading = FALSE /\ progress = 0 /\ error = Null
    /\ pc = "idle" /\ calls = << >> /\ outstanding = 0 /\ runFile = NoFile
    /\ uploadId = Undefined /\ key = Undefined /\ parts = 0 /\ urls = -1
    /\ partIdx = 0 /\ uploadedParts = << >> /\ completeData = NoData
    /\ completeRes = NoData
    /\ failedAt = "none" /\ completions = << >> /\ logs = << >>
    /\ IdleValidator /\ IdleClient /\ IdleProxy

\* one request arrives at the /proxy middleware
InitProxy ==
    /\ unit = "proxy"
    /\ pReq \in ProxyRequests /\ pPc = "received"
    /\ pFwd = NoHeaders /\ pBody = Undefined
    /\ pCur = NoCall /\ pHop = 0 /\ pFetch = NoCall /\ pVia = 0
    /\ pLocation = Null /\ pLog = NoLog
    /\ pDowngraded = FALSE /\ pCount = 0 /\ pRedirects = 0 /\ pThrown = "none"
    /\ pResponse = Null /\ pRes = NoResponse
    /\ IdleValidator /\ IdleClient /\ IdleApp /\ IdleUpload

NextValidate == Validate \/ ValidateFile

NextClient ==
    \/ \E t \in ClientTokens : SetToken(t)
    \/ \E force \in BOOLEAN, res \in ClientResponses : PostJson(force, res)

NextUpload ==
    \/ HandleUpload
    \/ \E res \in StartResponses : StartResponse(res)
    \/ \E res \in UrlsResponses : UrlsResponse(res)
    \/ \E res \in PutResponses : PutResponse(res)
    \/ \E res \in CompleteResponses : CompleteResponse(res)
    \/ \E res \in AnalyzeResponses : AnalyzeResponse(res)

\* an awaited fetch of the upload run settles
NetworkAnswers ==
    \/ \E res \in StartResponses : StartResponse(res)
    \/ \E res \in UrlsResponses : UrlsResponse(res)
    \/ \E res \in PutResponses : PutResponse(res)
    \/ \E res \in CompleteResponses : CompleteResponse(res)
    \/ \E res \in AnalyzeResponses : AnalyzeResponse(res)

NextLogin ==
    \/ HandleLogin
    \/ \E res \in LoginResponses : LoginResponse(res)

NextApp ==
    \/ NextLogin
    \/ \E v \in Domains : SetDomain(v)
    \/ \E f \in Files : HandleFileChange(f)
    \/ NextUpload

NextProxy ==
    \/ ProxyReceive
    \/ \E failed \in BOOLEAN, n \in BodyLengths : ProxyBody(failed, n)
    \/ \E res \in UpstreamResponses : ProxyUpstream(res)
    \/ \E failed \in BOOLEAN : ProxyRead(failed)

Init == InitValidate \/ InitClient \/ InitApp \/ InitOrch \/ InitProxy
Next == NextValidate \/ NextClient \/ NextApp \/ NextProxy

\* every unit
Spec == Init /\ [][Next]_vars
\* the validator alone
SpecValidate == InitValidate /\ [][NextValidate]_vars
\* the session client alone
SpecClient == InitClient /\ [][NextClient]_vars
\* the orchestrator on every File
SpecOrch == InitOrch /\ [][NextUpload]_vars
\* the application: login, file selection, upload
SpecApp == InitApp /\ [][NextApp]_vars
\* the dev proxy on one inbound request
SpecProxy == InitProxy /\ [][NextProxy]_vars
\* the orchestrator when every network call it awaits returns or fails
SpecOrchLive == SpecOrch /\ WF_vars(NetworkAnswers)
\* the dev proxy when every promise it awaits (request body, upstream fetch,
\* response body) settles
SpecProxyLive == SpecProxy /\ WF_vars(NextProxy)
\* everything that writes log lines: session client, upload form, dev proxy
SpecLogs == (InitClient \/ InitOrch \/ InitProxy) /\ [][NextClient \/ NextUpload \/ NextProxy]_vars
\* every fetch the browser code issues: session client, login, upload
SpecCalls == (InitClient \/ InitApp \/ InitOrch) /\ [][NextClient \/ NextApp]_vars

-----------------------------------------------------------------------------
(* Properties                                                              *)

FiveMiB == 5 * 1024 * 1024
SizeLimitMessage == "File exceeds 5MB limit"
UnsupportedTypeMessage == "Unsupported file type"

\* The calls of the current upload run of a given kind.
CallsOf(kind) == {i \in DOMAIN calls : calls[i].kind = kind}
ContentType(h) == IF HasHeader(h, "Content-Type") THEN h["Content-Type"] ELSE "<none>"

\* C1: for every size <= 5 MiB (the boundary 5*1024*1024 included) and every
\* MIME type of the allow-list, validateAudioFile returns valid = true and no
\* error, whatever the file name.
C1_AcceptsSmallListed ==
    (vOut.called /\ vIn.size <= FiveMiB /\ vIn.type \in ACCEPTED_TYPES)
        => (vOut.valid /\ vOut.error = Undefined)

C1_Witness ==
    /\ vOut.called /\ vIn.size = FiveMiB /\ vIn.type = "audio/x-pn-wav"
    /\ vIn.name = "test.txt" /\ vOut.valid

\* C2: for every size > 5 MiB validateAudioFile returns valid = false with the
\* size-limit message, whatever the MIME type: with a bad size and a bad type
\* the size error is the one reported.
C2_RejectsOversizeFirst ==
    (vOut.called /\ vIn.size > FiveMiB)
        => (~vOut.valid /\ vOut.error = Str(SizeLimitMessage))

C2_Witness ==
    /\ vOut.called /\ vIn.size = FiveMiB + 1 /\ vIn.type = "text/plain"
    /\ ~vOut.valid /\ vOut.error = Str(SizeLimitMessage)

\* C3: for every size <= 5 MiB and every MIME type outside the allow-list,
\* validateAudioFile returns valid = false with the unsupported-type message.
C3_RejectsUnlistedType ==
    (vOut.called /\ vIn.size <= FiveMiB /\ vIn.type \notin ACCEPTED_TYPES)
        => (~vOut.valid /\ vOut.error = Str(UnsupportedTypeMessage))

C3_Witness ==
    /\ vOut.called /\ vIn.size = FiveMiB /\ vIn.type = "AUDIO/MPEG"
    /\ ~vOut.valid /\ vOut.error = Str(UnsupportedTypeMessage)

\* C4: for a file of size 5MiB*k + r with 0 < r < 5MiB every get-upload-urls
\* request of the run carries parts = k + 1, never more than k + 1 part
\* transfers are issued, and once all of them succeeded (complete-upload has
\* been sent) exactly k + 1 were issued.
C4_PartCountIsCeil ==
    \A k \in 0 .. (MaxChunks + 1) :
        LET r == runFile.size - FiveMiB * k IN
        (runFile # NoFile /\ 0 < r /\ r < FiveMiB) =>
            /\ \A i \in CallsOf("get-upload-urls") : calls[i].body.parts = k + 1
            /\ Cardinality(CallsOf("put-part")) <= k + 1
            /\ CallsOf("complete-upload") # {} => Cardinality(CallsOf("put-part")) = k + 1

C4_Witness ==
    /\ runFile # NoFile /\ runFile.size = 2 * FiveMiB + 1
    /\ CallsOf("complete-upload") # {}
    /\ Cardinality(CallsOf("put-part")) = 3
    /\ \E i \in CallsOf("get-upload-urls") : calls[i].body.parts = 3

\* C5: after a successful complete-upload, when the response has
\* analysisStarted falsy and an upload id, exactly one POST to the analyze
\* endpoint has been issued and it carries that upload id; when
\* analysisStarted is true or there is no upload id, none has been issued.
C5_OneFallbackAnalyze ==
    completeRes # NoData =>
        IF ~Truthy(completeRes.analysisStarted) /\ Truthy(completeRes.upload_id)
          THEN /\ Cardinality(CallsOf("analyze")) = 1
               /\ \A i \in CallsOf("analyze") :
                    /\ calls[i].body.uploadIds = <<completeRes.upload_id.value>>
                    /\ calls[i].method = "POST" /\ calls[i].target = "/api/analyze"
                    /\ i = Len(calls)
          ELSE CallsOf("analyze") = {}

C5_Witness ==
    /\ completeRes # NoData /\ completeRes.analysisStarted = Undefined
    /\ completeRes.upload_id = Str("rec-7")
    /\ pc = "idle" /\ Cardinality(CallsOf("analyze")) = 1

\* The fetch whose failure aborts the run in a given phase.
PhaseCall(phase) ==
    CASE phase = "start"    -> "start-upload"
      [] phase = "urls"     -> "get-upload-urls"
      [] phase = "put"      -> "put-part"
      [] phase = "complete" -> "complete-upload"

\* C6: in one upload run start-upload, get-upload-urls, each part transfer
\* and complete-upload are issued at most once; after one of them failed the
\* failed call is the last call of the run, nothing is outstanding, the run
\* has ended and the caller has received the error.
C6_NoRetryFailureAborts ==
    /\ \A kd \in {"start-upload", "get-upload-urls", "complete-upload"} :
          Cardinality(CallsOf(kd)) <= 1
    /\ \A i, j \in CallsOf("put-part") : calls[i].body.part = calls[j].body.part => i = j
    /\ failedAt # "none" =>
          /\ calls[Len(calls)].kind = PhaseCall(failedAt)
          /\ outstanding = 0 /\ pc = "idle" /\ ~uploading
          /\ error # Null
          /\ completions = <<"Upload error: " \o error.value>>

C6_Witness ==
    /\ failedAt = "put" /\ Len(uploadedParts) = 1 /\ parts = 3
    /\ Cardinality(CallsOf("put-part")) = 2
    /\ completions = <<"Upload error: Chunk 2 failed">>

\* C7: postJson with no token set (undefined, null or empty) sends no
\* Authorization header at all; with a token set the header is exactly
\* "Bearer <token>", for the token the client holds when the call is made.
C7_AuthorizationHeader ==
    cCall.issued =>
        IF cTokenAtCall \in {Undefined, Null, Str("")}
          THEN ~HasHeader(cCall.headers, "Authorization")
          ELSE /\ HasHeader(cCall.headers, "Authorization")
               /\ cCall.headers["Authorization"] = "Bearer " \o cTokenAtCall.value

C7_Witness ==
    /\ cSets = 1 /\ cCall.issued /\ cToken = Str("t0k") /\ cTokenAtCall = Str("t0k")
    /\ cCall.headers["Authorization"] = "Bearer t0k"

\* C8: postJson raises exactly when the status is not a success status or
\* the parsed body has success === false (even with status 200); the error
\* carries the status and the parsed body; otherwise it returns the parsed
\* body.
C8_FailureDetection ==
    (cCall.issued /\ ~cRes.threw) =>
        LET parsed == IF cRes.body = Unparsable THEN Null ELSE cRes.body IN
        IF \/ cRes.status \notin 200 .. 299
           \/ (cRes.body.kind = "object" /\ cRes.body.success = Bool(FALSE))
          THEN /\ cOutcome.kind = "raised"
               /\ cOutcome.status = Num(cRes.status)
               /\ cOutcome.details = parsed
          ELSE /\ cOutcome.kind = "returned"
               /\ cOutcome.data = parsed

C8_Witness ==
    /\ cCall.issued /\ ~cRes.threw /\ cRes.status = 200
    /\ cRes.body.kind = "object" /\ cRes.body.success = Bool(FALSE)
    /\ cOutcome.kind = "raised" /\ cOutcome.status = Num(200)

\* C9: a response with status 500 and body {success: false, error: "Boom"}
\* raises an error whose message is "Boom"; in general the message of the
\* raised error is the body's error field, else its message field, else
\* "Request failed (<status>)".
C9_ErrorMessage ==
    (cCall.issued /\ ~cRes.threw /\ cOutcome.kind = "raised") =>
        LET hasError   == cRes.body.kind = "object" /\ cRes.body.error \notin {Undefined, Str("")}
            hasMessage == cRes.body.kind = "object" /\ cRes.body.message \notin {Undefined, Str("")}
        IN  /\ hasError => cOutcome.message = cRes.body.error.value
            /\ (~hasError /\ hasMessage) => cOutcome.message = cRes.body.message.value
            /\ (~hasError /\ ~hasMessage) =>
                  cOutcome.message = "Request failed (" \o ToString(cRes.status) \o ")"
            /\ (~hasError /\ ~hasMessage /\ cRes.status = 404) =>
                  cOutcome.message = "Request failed (404)"

C9_Witness ==
    /\ cCall.issued /\ ~cRes.threw /\ cRes.status = 500
    /\ cRes.body = [kind |-> "object", success |-> Bool(FALSE), error |-> Str("Boom"),
                    message |-> Undefined]
    /\ cOutcome.kind = "raised" /\ cOutcome.message = "Boom"

\* C10: postJson sends a Content-Type exactly when forceJsonContentType is
\* given; the login call and the start-upload, get-upload-urls, part and
\* complete-upload calls send none; the fallback analyze call sends
\* Content-Type: application/json.
C10_ContentTypeOptIn ==
    /\ cCall.issued =>
          ContentType(cCall.headers) = IF cForce THEN "application/json" ELSE "<none>"
    /\ loginCall.issued => ~HasHeader(loginCall.headers, "Content-Type")
    /\ \A i \in DOMAIN calls :
          ContentType(calls[i].headers) =
              IF calls[i].kind = "analyze" THEN "application/json" ELSE "<none>"

C10_Witness ==
    /\ loginCall.issued /\ ~HasHeader(loginCall.headers, "Content-Type")
    /\ Len(calls) = 5
    /\ calls[1].kind = "start-upload" /\ ~HasHeader(calls[1].headers, "Content-Type")
    /\ calls[5].kind = "analyze" /\ calls[5].headers["Content-Type"] = "application/json"

\* ---- the dev proxy ----

\* The text is an absolute http(s) URL: an http or https scheme (in any
\* case) followed by a host.
IsAbsoluteHttpUrl(t) ==
    /\ t.kind = "text" /\ t.pad = ""
    /\ t.prefix \in {"http://", "https://", "HTTP://", "HTTPS://"}
    /\ t.host # ""

\* The X-Target-Base the caller supplied, white space stripped; "" when the
\* header is missing or blank.
SuppliedBase == IF pReq.base = Undefined THEN "" ELSE Text(Trim(pReq.base))
BaseIsUrl == pReq.base # Undefined /\ pReq.base.prefix # "" /\ pReq.base.host # ""

ProxyErrorBodies ==
    {"Proxy error: " \o m :
        m \in {"aborted", "fetch failed", "unknown", "terminated", "Invalid URL",
               "Failed to parse URL"}}

\* C11: a request whose url parameter is missing, or is not an absolute
\* http(s) URL, never has an upstream request issued for it and is answered
\* with status 400.
C11_BadTargetIs400 ==
    (unit = "proxy" /\ ~IsAbsoluteHttpUrl(pReq.target)) =>
        /\ pCount = 0
        /\ pRes.sent => pRes.status = 400

\* C12: for a target that is an absolute http(s) URL: with an X-Target-Base
\* whose origin differs from the target's the answer is 403 and nothing is
\* sent upstream; with no base, or a base of the same origin, the answer is
\* neither 400 nor 403 and the request is sent upstream to the target as soon
\* as its body has been read.
C12_OriginPinning ==
    (unit = "proxy" /\ IsAbsoluteHttpUrl(pReq.target)) =>
        /\ (BaseIsUrl /\ Origin(pReq.base) # Origin(pReq.target)) =>
              /\ pCount = 0 /\ pPc \in {"received", "done"}
              /\ pRes.sent => pRes.status = 403
        /\ (SuppliedBase = "" \/ (BaseIsUrl /\ Origin(pReq.base) = Origin(pReq.target))) =>
              /\ pRes.sent => pRes.status \notin {400, 403}
              /\ (pPc \in {"fetch", "read"} \/ (pPc = "done" /\ pThrown # "body")) => pCount >= 1
              /\ pCount = 1 => pFetch.url = pReq.target

C12_Witness ==
    /\ pReq.target = TargetAHttp /\ SuppliedBase = "https://a.example"
    /\ pRes.sent /\ pRes.status = 403 /\ pCount = 0

\* C13: at most 5 redirects are followed (6 upstream requests), and once 6
\* redirects have been received the caller gets a proxy error (502), not a
\* relayed upstream response.
C13_SixthRedirectIsError ==
    /\ pCount <= 6
    /\ (pRedirects = 6 /\ pPc \in {"read", "done"}) =>
          /\ pThrown # "none"
          /\ pRes.sent /\ pRes.status = 502 /\ pRes.body \in ProxyErrorBodies

\* C14: once a 301, 302 or 303 with a Location has been followed, the
\* follow-up request and every later request of the chain is a GET with no
\* body, no content-length and no content-type, whatever the inbound method
\* and body were.
C14_DowngradeToGet ==
    (pDowngraded \/ pVia \in {301, 302, 303}) =>
        /\ pFetch.method = "GET" /\ pFetch.body = Undefined
        /\ ~HasHeader(pFetch.headers, "content-length")
        /\ ~HasHeader(pFetch.headers, "content-type")

C14_Witness ==
    /\ pReq.method = "POST" /\ pBody # Undefined
    /\ pDowngraded /\ pVia = 307 /\ pCount = 3
    /\ pFetch.method = "GET" /\ pFetch.body = Undefined

\* C15: the request that follows a 307 or 308 has the method, the body and
\* the headers of the request that was redirected; only its URL may differ.
C15_PreserveOn307 ==
    [][(pCount' = pCount + 1 /\ pCount >= 1 /\ pVia' \in {307, 308}) =>
          /\ pFetch'.method = pFetch.method
          /\ pFetch'.body = pFetch.body
          /\ pFetch'.headers = pFetch.headers]_vars

C15_Witness ==
    /\ pVia = 308 /\ pCount = 2
    /\ pFetch.method = "POST" /\ pFetch.body = [kind |-> "buffer", length |-> 27]
    /\ HasHeader(pFetch.headers, "content-type") /\ pFetch.headers["content-length"] = "27"
    /\ pFetch.url # pReq.target

\* C16: whenever something throws while relaying (reading the request body,
\* the upstream fetch, resolving a Location, reading the upstream response)
\* the caller is answered, with status 502 and a text/plain body
\* "Proxy error: <message>".
C16_ErrorsBecome502 ==
    pThrown # "none" =>
        /\ pPc = "done" /\ pRes.sent
        /\ pRes.status = 502
        /\ pRes.headers["content-type"] = "text/plain; charset=utf-8"
        /\ pRes.body \in ProxyErrorBodies

C16_Witness ==
    /\ pThrown = "read" /\ pRes.sent /\ pRes.status = 502
    /\ pRes.body = "Proxy error: terminated"
    /\ HasHeader(pRes.headers, "set-cookie")

\* ---- the upload flow ----

ApiPosts == {"start-upload", "get-upload-urls", "complete-upload", "analyze"}
TriggeredMessage  == "Upload & analysis triggered successfully."
NotStartedMessage == "Upload completed but analysis may not have started."

\* C17: every start-upload, get-upload-urls, complete-upload and fallback
\* analyze POST issued after login carries Authorization: Bearer <token>.
C17_ApiPostsCarryBearer ==
    \A i \in DOMAIN calls :
        (isAuthenticated /\ calls[i].kind \in ApiPosts) =>
            /\ calls[i].method = "POST"
            /\ HasHeader(calls[i].headers, "Authorization")
            /\ token.kind = "string"
            /\ calls[i].headers["Authorization"] = "Bearer " \o token.value

\* How the analysis of a finished, successful upload was started.
AnalysisOutcome ==
    IF Truthy(completeRes.analysisStarted) THEN "server"
    ELSE IF CallsOf("analyze") # {} /\ Truthy(completeData.analysisStarted) THEN "fallback"
    ELSE "not started"

\* C18: after an upload whose complete-upload succeeded, the message given to
\* the UI tells the three outcomes apart: the success message only when the
\* server started the analysis itself, the not-started message only when no
\* analysis was started, and another message when the fallback started it.
C18_MessageReportsFallback ==
    (completeRes # NoData /\ pc = "idle") =>
        /\ Len(completions) = 1
        /\ AnalysisOutcome = "server" <=> completions[1] = TriggeredMessage
        /\ AnalysisOutcome = "not started" <=> completions[1] = NotStartedMessage

\* C19: when the start-upload response has success falsy, or uploadId or key
\* absent or null, the start phase fails and no get-upload-urls call is made.
C19_StartNeedsIdAndKey ==
    \A i \in DOMAIN calls :
        calls[i].kind = "get-upload-urls" =>
            /\ calls[i].body.uploadId \notin {Undefined, Null}
            /\ calls[i].body.key \notin {Undefined, Null}

\* C20: for a file of at least one part, the get-URLs phase is left for the
\* part transfers only with a urls list of exactly partCount entries: with
\* fewer (or more) no part transfer and no complete-upload is issued.
C20_UrlsMatchPartCount ==
    (parts >= 1 /\ (CallsOf("put-part") # {} \/ CallsOf("complete-upload") # {}))
        => urls = parts

\* C21: when the transfer of part i does not succeed the run aborts with an
\* error naming i (1-based), no part after i is transferred and
\* complete-upload is never sent.
C21_PartFailureNamesPart ==
    failedAt = "put" =>
        LET i == Len(uploadedParts) + 1 IN
        /\ error = Str("Chunk " \o ToString(i) \o " failed")
        /\ completions = <<"Upload error: Chunk " \o ToString(i) \o " failed">>
        /\ \A c \in CallsOf("put-part") : calls[c].body.part <= i
        /\ CallsOf("complete-upload") = {}

\* The answers to the part transfers, as the trace lines report them.
PutAnswers == {l \in DOMAIN logs : logs[l].line = "<- PUT part response"}

\* C22: whenever complete-upload is sent its parts list has exactly
\* partCount entries (the count asked of get-upload-urls), with PartNumber
\* 1, 2, ..., partCount in this order, one for each part transfer that was
\* answered with success.
C22_PartsContiguous ==
    \A c \in CallsOf("complete-upload") :
        LET ps == calls[c].body.parts IN
        /\ Len(ps) = parts
        /\ \A u \in CallsOf("get-upload-urls") : calls[u].body.parts = Len(ps)
        /\ \A j \in 1 .. Len(ps) : ps[j].PartNumber = j
        /\ {logs[l].data.part : l \in {a \in PutAnswers : logs[a].data.ok}} = 1 .. Len(ps)
        /\ Cardinality(PutAnswers) = Len(ps)

C22_Witness ==
    /\ CallsOf("complete-upload") # {} /\ parts = 3
    /\ \E c \in CallsOf("complete-upload") :
          /\ Len(calls[c].body.parts) = 3
          /\ calls[c].body.parts[3].PartNumber = 3

\* C23: for every file the UI lets through, get-upload-urls asks for at
\* least one part and complete-upload carries a non-empty parts list.
C23_AtLeastOnePart ==
    /\ \A u \in CallsOf("get-upload-urls") : calls[u].body.parts >= 1
    /\ \A c \in CallsOf("complete-upload") : Len(calls[c].body.parts) >= 1

\* C24: during an upload run progress never decreases; it is at most 80
\* while parts are being transferred; after the j-th of n parts it is
\* round(80 * j / n), halves rounded up.
C24_ProgressMonotone ==
    /\ [](pc = "put" => progress <= 80)
    /\ []((pc \in {"put", "complete"} /\ Len(uploadedParts) >= 1) =>
             /\ 2 * parts * progress <= 160 * Len(uploadedParts) + parts
             /\ 160 * Len(uploadedParts) + parts < 2 * parts * (progress + 1))
    /\ [][uploading => progress' >= progress]_vars

C24_Witness ==
    /\ pc = "put" /\ parts = 3 /\ Len(uploadedParts) = 2 /\ progress = 53

\* C25: progress is 100 exactly once complete-upload has succeeded in the
\* run: a run that failed in the start, get-urls, part or complete phase
\* never shows 100, and a failed fallback analysis leaves it at 100.
C25_HundredAfterComplete ==
    /\ progress = 100 <=> completeRes # NoData
    /\ failedAt # "none" => progress < 100
    /\ (pc = "idle" /\ CallsOf("analyze") # {}) => progress = 100

C25_Witness ==
    /\ failedAt = "complete" /\ parts = 1 /\ Len(uploadedParts) = 1 /\ progress = 80

\* The fallback analyze of the run has been answered, and it failed: its
\* fetch rejected, or the status was not a success, or the body has no
\* truthy success.
FallbackFailed ==
    /\ pc = "idle" /\ CallsOf("analyze") # {} /\ logs # << >>
    /\ LET last == logs[Len(logs)] IN
         \/ last.line = "Fallback analyze trigger failed"
         \/ /\ last.line = "<- analyze response"
            /\ \/ ~last.data.ok
               \/ last.data.body = Unparsable
               \/ ~Truthy(last.data.body.success)

C27_PlaceholderEtag ==
    \A l \in PutAnswers :
        (logs[l].data.ok /\ logs[l].data.etag = Null) =>
            LET j == logs[l].data.part IN
            /\ Len(uploadedParts) >= j
            /\ uploadedParts[j] = [ETag |-> "\"etag-" \o ToString(j) \o "-<now>\"",
                                   PartNumber |-> j]
            /\ Len(logs) > l
            /\ \/ logs[l + 1].line = "-> PUT part" /\ logs[l + 1].data.part = j + 1
               \/ logs[l + 1].line = "-> POST complete-upload" /\ j = parts

C27_Witness ==
    /\ pc = "complete" /\ parts = 2 /\ Len(uploadedParts) = 2
    /\ uploadedParts[1].ETag = "\"etag-1-<now>\""
    /\ uploadedParts[2].ETag = "\"9b2cf535f27731c9\""

\* C28: at most one network call of the run is outstanding, and the calls
\* are issued in the order start-upload, get-upload-urls, part 1, ..., part
\* n, complete-upload, analyze.
C28_OneCallAtATime ==
    /\ outstanding = IF pc = "idle" THEN 0 ELSE 1
    /\ \A i \in DOMAIN calls :
          CASE i = 1          -> calls[i].kind = "start-upload"
            [] i = 2          -> calls[i].kind = "get-upload-urls"
            [] i <= parts + 2 -> calls[i].kind = "put-part" /\ calls[i].body.part = i - 2
            [] i = parts + 3  -> calls[i].kind = "complete-upload"
            [] i = parts + 4  -> calls[i].kind = "analyze"
            [] OTHER          -> FALSE

C28_Witness ==
    /\ parts = 3 /\ Len(calls) = 7 /\ calls[5].body.part = 3
    /\ calls[7].kind = "analyze" /\ outstanding = 1

\* C29: every part transfer is a direct PUT (not through /proxy) without an
\* Authorization header, to the URL of its part when the list has one; every
\* start-upload, get-upload-urls, complete-upload and analyze goes through
\* /proxy.
C29_PartsGoDirect ==
    \A i \in DOMAIN calls :
        IF calls[i].kind = "put-part"
          THEN /\ calls[i].via = "direct" /\ calls[i].method = "PUT"
               /\ ~HasHeader(calls[i].headers, "Authorization")
               /\ calls[i].body.part <= urls => calls[i].target = "presigned-url"
          ELSE calls[i].kind \in ApiPosts /\ calls[i].via = "proxy"

C29_Witness ==
    /\ token = Str("tokA") /\ Len(calls) >= 3
    /\ HasHeader(calls[1].headers, "Authorization") /\ calls[1].via = "proxy"
    /\ calls[3].kind = "put-part" /\ calls[3].via = "direct"
    /\ calls[3].headers = NoHeaders

\* C30: postJson on a body that is not JSON: with a success status it
\* returns (null) without raising, with another status it raises
\* "Request failed (<status>)".
C30_UnparsableBody ==
    (cCall.issued /\ ~cRes.threw /\ cRes.body = Unparsable) =>
        IF cRes.status \in 200 .. 299
          THEN cOutcome.kind = "returned" /\ cOutcome.data = Null
          ELSE /\ cOutcome.kind = "raised"
               /\ cOutcome.message = "Request failed (" \o ToString(cRes.status) \o ")"
               /\ cOutcome.status = Num(cRes.status)

C30_Witness ==
    /\ cCall.issued /\ ~cRes.threw /\ cRes.body = Unparsable /\ cRes.status = 200
    /\ cOutcome.kind = "returned"

\* The login fetch has been answered with a success: a basic 2xx response
\* whose JSON has a truthy success.
LoginSucceeded(r) ==
    /\ r # NoCall /\ ~r.threw
    /\ r.type # "opaqueredirect" /\ ~(r.status >= 300 /\ r.status < 400)
    /\ r.json /\ r.status \in 200 .. 299 /\ Truthy(r.success)

\* C31: the bearer token changes only in the step that ends a successful
\* login; no upload step and no domain change modifies it, and once it is
\* set it never changes again.
C31_TokenOnlyByLogin ==
    [][/\ token' # token =>
             (loading /\ ~loading' /\ ~isAuthenticated /\ isAuthenticated' /\ LoginSucceeded(loginRes'))
       /\ (domain' # domain \/ uploading \/ uploading' \/ calls' # calls) => token' = token
       /\ token # Null => token' = token]_vars

C31_Witness ==
    /\ token = Str("tokA") /\ domain # DefaultDomain
    /\ failedAt = "put" /\ statusMessage = "Upload error: Chunk 1 failed"

\* C32: a login attempt that was answered by a redirect (3xx or opaque), by a
\* body that is not JSON, by a non-success status or by a falsy success ends
\* as a login error with the session unauthenticated and the token unchanged
\* (still null); the session is authenticated only after an answer with none
\* of these; loading is cleared once the attempt has ended.
C32_LoginFailures ==
    /\ loginRes # NoCall => ~loading
    /\ (loginRes # NoCall /\ ~LoginSucceeded(loginRes)) =>
          /\ ~isAuthenticated /\ token = Null
          /\ statusMessage \notin {"", "Logging in...", "Login successful. You can now upload a file."}
    /\ isAuthenticated <=> LoginSucceeded(loginRes)

C32_Witness ==
    /\ loginRes # NoCall /\ ~loginRes.threw /\ loginRes.type = "opaqueredirect"
    /\ loginRes.status = 200 /\ loginRes.success = Bool(TRUE)
    /\ ~isAuthenticated /\ ~loading /\ token = Null

\* The request headers the proxy must not pass on.
StrippedNames ==
    {"host", "connection", "keep-alive", "proxy-authenticate", "proxy-authorization",
     "te", "trailer", "transfer-encoding", "upgrade", "origin", "referer"}

\* C33: every upstream request, on the first hop and on every redirect hop,
\* carries none of the hop-by-hop and origin-identifying headers and carries
\* accept-encoding: identity, whatever the browser sent.
C33_StrippedHeaders ==
    pFetch.issued =>
        /\ {ToLowerCase(k) : k \in DOMAIN pFetch.headers} \cap StrippedNames = {}
        /\ HasHeader(pFetch.headers, "accept-encoding")
        /\ pFetch.headers["accept-encoding"] = "identity"

C33_Witness ==
    /\ pReq.headers = BrowserHeaders /\ pReq.headers["accept-encoding"] = "gzip, deflate, br"
    /\ pCount = 3 /\ pVia = 307 /\ pPc = "fetch"
    /\ pFetch.headers["accept-encoding"] = "identity"
    /\ HasHeader(pFetch.headers, "authorization") /\ ~HasHeader(pFetch.headers, "referer")

\* C35: X-Target-Base pins the first upstream request only: with a base
\* supplied the first request goes to the base's origin, and every later
\* request goes where the Location header of the redirect points (an absolute
\* Location as it stands, a path on the origin of the request it answers),
\* whatever the base is.
C35_PinOnlyOnFirstHop ==
    /\ (pFetch.issued /\ pCount = 1 /\ SuppliedBase # "") =>
          (BaseIsUrl /\ Origin(pFetch.url) = Origin(pReq.base))
    /\ (pPc = "fetch" /\ pVia # 0) =>
          /\ TextTruthy(pLocation)
          /\ IF pLocation.prefix # ""
               THEN pFetch.url = Serialize(Trim(pLocation))
               ELSE pFetch.url.path = pLocation.path

C35_Witness ==
    /\ SuppliedBase = "https://a.example" /\ pPc = "fetch" /\ pCount = 2
    /\ Origin(pFetch.url) = "https://b.example"
    /\ Origin(pFetch.url) # Origin(pReq.base)

\* C36: at most 6 upstream requests are issued for an inbound request, each
\* one after the first following a redirect that has a Location; a 3xx
\* without Location ends the loop and is relayed; the caller gets one response
\* (400, 403, the relayed upstream status or 502), never a second one, and
\* does get one.
C36_LoopTerminates ==
    /\ [](pCount <= 6 /\ pCount <= pRedirects + 1)
    /\ []((/\ pResponse # Null /\ pResponse.status >= 300 /\ pResponse.status < 400
           /\ ~TextTruthy(pResponse.location)) =>
             /\ pPc \in {"read", "done"}
             /\ (pRes.sent /\ pThrown = "none") => pRes.status = pResponse.status)
    /\ [](pRes.sent =>
             /\ pPc = "done"
             /\ pRes.status \in {400, 403, 502} \cup
                                (IF pResponse # Null THEN {pResponse.status} ELSE {}))
    /\ [][pRes.sent => pRes' = pRes]_vars
    /\ <>(pRes.sent)

C36_Witness ==
    /\ pCount = 6 /\ pRedirects = 5 /\ pRes.sent /\ pThrown = "none"
    /\ pResponse # Null /\ pResponse.status = 302 /\ pResponse.location = Null
    /\ pRes.status = 302

SecretNames == {"authorization", "cookie"}
RedactionMarkers == {"Bearer ****", "<redacted>"}
\* The logged headers show no value of an authorization or cookie header of
\* sent.
Redacted(shown, sent) ==
    /\ DOMAIN shown = DOMAIN sent
    /\ \A k \in DOMAIN shown :
          ToLowerCase(k) \in SecretNames =>
              (shown[k] \in RedactionMarkers /\ shown[k] # sent[k])

\* The headers of the request a trace line of the upload form announces.
Announced(l) ==
    LET kind == CASE logs[l].line = "-> POST start-upload"       -> "start-upload"
                  [] logs[l].line = "-> POST get-upload-urls"    -> "get-upload-urls"
                  [] logs[l].line = "-> POST complete-upload"    -> "complete-upload"
                  [] logs[l].line = "-> POST analyze (fallback)" -> "analyze"
                  [] OTHER -> "none"
    IN  {calls[c].headers : c \in CallsOf(kind)}

\* C34: no log line shows an authorization or cookie header value: the
\* header lines of the upload trace, of the session client and of the proxy
\* carry a marker in its place; and no response text in the upload trace is
\* longer than 1000 characters, the rest being announced as a count.
C34_NoSecretsInLogs ==
    /\ \A l \in DOMAIN logs :
          /\ "headers" \in DOMAIN logs[l].data =>
                \A sent \in Announced(l) : Redacted(logs[l].data.headers, sent)
          /\ "text" \in DOMAIN logs[l].data =>
                /\ logs[l].data.text.kept <= 1000
                /\ logs[l].data.text.more > 0 => logs[l].data.text.kept = 1000
    /\ cLog.emitted => Redacted(cLog.headers, cCall.headers)
    /\ pLog.emitted => Redacted(pLog.headers, pFwd)

C34_Witness ==
    /\ pLog.emitted /\ pPc = "fetch" /\ pReq.headers = BrowserHeaders
    /\ pFetch.headers["authorization"] = "Bearer tokA" /\ pFetch.headers["cookie"] = "sid=1"
    /\ pLog.headers["authorization"] = "<redacted>" /\ pLog.headers["cookie"] = "<redacted>"

\* C37: while an upload runs the held file does not change, the file the run
\* works on does not change, and the calls of the run are only added to,
\* never by a second start-upload: one run is in flight at a time.
C37_OneRunAtATime ==
    /\ [](uploading <=> pc # "idle")
    /\ [](uploading => (Cardinality(CallsOf("start-upload")) = 1 /\ runFile = file))
    /\ [][uploading =>
             /\ file' = file /\ runFile' = runFile
             /\ Len(calls') >= Len(calls)
             /\ \A i \in DOMAIN calls : calls'[i] = calls[i]
             /\ \A i \in (DOMAIN calls') \ (DOMAIN calls) : calls'[i].kind # "start-upload"]_vars

C37_Witness ==
    /\ uploading /\ pc = "put" /\ file # NoFile /\ runFile = file
    /\ Len(calls) = 3 /\ calls[1].kind = "start-upload"

\* A File within the size limit whose type is on the allow-list.
Acceptable(f) == f.size <= FiveMiB /\ f.type \in ACCEPTED_TYPES

\* C38: the held file is absent or acceptable (size <= 5 MiB, listed type);
\* a selection either holds an acceptable file with no error or, for an
\* invalid file, holds none and sets the error; no upload starts while no
\* file is held; the orchestrator only runs on acceptable files.
C38_HeldFileIsValid ==
    /\ [](file = NoFile \/ Acceptable(file))
    /\ [](calls # << >> => (runFile # NoFile /\ Acceptable(runFile)))
    /\ [][(~uploading /\ ~uploading' /\ isAuthenticated /\ domain' = domain) =>
             \/ file' # NoFile /\ Acceptable(file') /\ error' = Null
             \/ file' = NoFile /\ error' \in {Str(SizeLimitMessage), Str(UnsupportedTypeMessage)}]_vars
    /\ [][file = NoFile => ~(uploading' /\ ~uploading)]_vars

C38_Witness ==
    /\ runFile # NoFile /\ Acceptable(runFile) /\ ~uploading
    /\ file = NoFile /\ error = Str(UnsupportedTypeMessage)

\* C39: on every (size, type) the upload form's validateFile and the exported
\* validateAudioFile accept or reject together, and for a rejected input they
\* give the same message.
C39_ValidatorsAgree ==
    (vOut.called /\ vErr.called) =>
        /\ vOut.valid <=> vErr.error = Null
        /\ ~vOut.valid => vErr.error = vOut.error

C39_Witness ==
    /\ vOut.called /\ vErr.called
    /\ vIn.size = FiveMiB + 1 /\ vIn.type = "text/plain"
    /\ vErr.error = Str(SizeLimitMessage) /\ vOut.error = Str(SizeLimitMessage)

\* C40: every upload run that has started ends, provided every network call
\* returns or fails: uploading is false again and the caller has received
\* exactly one message for the run, a success message when the run succeeded
\* and "Upload error: ..." when it aborted.
C40_RunEnds ==
    /\ uploading ~> (~uploading /\ Len(completions) = 1)
    /\ [](uploading => completions = << >>)
    /\ []((~uploading /\ calls # << >>) =>
             /\ Len(completions) = 1
             /\ IF failedAt = "none"
                  THEN completions[1] \in {TriggeredMessage, NotStartedMessage}
                  ELSE error # Null /\ completions[1] = "Upload error: " \o error.value)

C40_Witness ==
    /\ ~uploading /\ failedAt = "complete" /\ Len(uploadedParts) = 2
    /\ completions = <<"Upload error: Merge failed">>

=============================================================================
